---------------------------- MODULE Spec2Model ----------------------------
(***************************************************************************)
(* A model of Lib/pydoc.py: the synopsis cache, the Scanner/ModuleScanner  *)
(* tree walk with its cooperative quit flag, locate, and the boundaries    *)
(* that call it (DocHandler.do_GET, doc, the cli argument loop), the       *)
(* module index, the formatting helpers, and the GUI with its scanner      *)
(* threads and its server thread.                                          *)
(*                                                                         *)
(* Python strings are TLA+ strings; Python's None is the empty tuple and a *)
(* non-None value v is the 1-tuple <<v>> wherever the two must be told     *)
(* apart.                                                                  *)
(***************************************************************************)
EXTENDS Integers, Sequences, FiniteSets, TLC

VARIABLES
    fs,        \* the file system: path -> [kind, mtime, lines]
    cache,     \* synopsis' default argument cache={}: path -> [mtime, result]
    lastSyn,   \* observation of the last synopsis() call (None before any)
    roots,     \* Scanner.roots: the roots not yet entered
    state,     \* Scanner.state: the stack of (node, pending children)
    quit,      \* ModuleScanner.quit
    seen,      \* run's local seen: the module names already examined
    pc,        \* where the thread executing run() is
    key,       \* run's argument key
    hasCompleter, \* whether run was given a completer
    bi,        \* position of the loop over sys.builtin_module_names
    node,      \* run's local node: the last value of self.next()
    events,    \* the callback and completer invocations of the current run
    visited,   \* every node self.next() has returned on this instance
    runs,      \* the number of run() calls made on this instance
    runFrom,   \* Len(visited) when the current run began
    exhausted, \* self.next() has returned None on this instance
    quitAt,    \* where run() was when another thread set the quit flag ("" if not)
    afterQuit, \* what run() has started since: next() calls, callbacks
    sysModules,\* sys.modules: the names of the registered modules
    boundary,  \* the boundary entered last: "do_GET", "doc" or "cli"
    hpc,       \* where that boundary is: "idle", "resolving", "rendering"
    arg,       \* what it resolves: a name, or an object handed in
    writing,   \* cli's -w flag
    loc,       \* the outcome of its locate() call (None before the call)
    out,       \* what it has shown the user: pages sent, lines printed, ...
    raised,    \* the exception that left the boundary (None if none)
    arose,     \* the error kind that arose while it ran ("" if none)
    shadowed,  \* do_GET's dictionary seen, shared by the html.index calls
    indices,   \* do_GET's list indices: one entry per directory indexed
    idxDirs,   \* the directories of pathdirs() not yet indexed
    ipc,       \* where the building of the module index is
    fmtCall,   \* the formatting helper called last, with its arguments
    fmtRet,    \* what that call returned
    gui,       \* the GUI instance: scanner, server, the result list, the main loop
    scanners,  \* the ModuleScanners that GUI.search has made, with their threads
    server     \* the DocServer of the thread that GUI.__init__ starts

synVars == <<fs, cache, lastSyn>>
srvVars == <<sysModules, boundary, hpc, arg, writing, loc, out, raised, arose>>
scanVars == <<roots, state, quit, seen, pc, key, hasCompleter, bi, node,
              events, visited, runs, runFrom, exhausted, quitAt, afterQuit>>
idxVars == <<shadowed, indices, idxDirs, ipc>>
fmtVars == <<fmtCall, fmtRet>>
guiVars == <<gui, scanners, server>>
pageVars == <<idxVars, fmtVars, guiVars>>

None == <<>>
Some(v) == <<v>>

\* no module index is being built and no formatting helper has been called
IdlePages ==
    /\ shadowed = {}
    /\ indices = <<>>
    /\ idxDirs = <<>>
    /\ ipc = "idle"
    /\ fmtCall = None
    /\ fmtRet = None
    /\ gui = [scanner |-> None, server |-> None, results |-> <<>>, mainloop |-> FALSE]
    /\ scanners = <<>>
    /\ server = [pc |-> "none", quit |-> -1, quitAt |-> ""]

-----------------------------------------------------------------------------
(* Bounds of the model *)

MaxTime == 2
MaxRuns == 2

-----------------------------------------------------------------------------
(* String helpers: the pieces of the string module that pydoc imports *)

Whitespace == {" ", "\n", "\t", "\r"}

CharAt(s, i) == SubSeq(s, i, i)

\* s[:n]
Prefix(s, n) == SubSeq(s, 1, IF n < Len(s) THEN n ELSE Len(s))

\* s[n:]
DropFirst(s, n) == SubSeq(s, n + 1, Len(s))

\* s[-n:]
Suffix(s, n) == SubSeq(s, (IF Len(s) > n THEN Len(s) - n ELSE 0) + 1, Len(s))

\* s[:-n]
DropLast(s, n) == SubSeq(s, 1, Len(s) - n)

RECURSIVE lstrip(_)
lstrip(s) ==
    IF s # "" /\ CharAt(s, 1) \in Whitespace THEN lstrip(DropFirst(s, 1)) ELSE s

RECURSIVE rstrip(_)
rstrip(s) ==
    IF s # "" /\ CharAt(s, Len(s)) \in Whitespace THEN rstrip(DropLast(s, 1)) ELSE s

strip(s) == rstrip(lstrip(s))

\* string.find(s, sub): the lowest index (from 0) where sub occurs, else -1
find(s, sub) ==
    LET hits == {i \in 1..(Len(s) - Len(sub) + 1) : SubSeq(s, i, i + Len(sub) - 1) = sub}
    IN  IF hits = {} THEN -1
        ELSE (CHOOSE i \in hits : \A j \in hits : i <= j) - 1

\* string.split(s, sep)[0]: the part of s before the first occurrence of sep
SplitFirst(s, sep) ==
    LET at == find(s, sep) IN IF at < 0 THEN s ELSE Prefix(s, at)

-----------------------------------------------------------------------------
(* synopsis(filename, cache={}) *)

\* file.readline() at line number pos: the line with its newline, '' at EOF
readline(lines, pos) == IF pos <= Len(lines) THEN lines[pos] ELSE ""

\* while line[:1] == '#' or strip(line) == '': line = readline(); if not line: break
RECURSIVE SkipComments(_, _, _)
SkipComments(lines, line, pos) ==
    IF Prefix(line, 1) = "#" \/ strip(line) = ""
    THEN LET nxt == readline(lines, pos)
         IN  IF nxt = "" THEN [line |-> "", pos |-> pos + 1]
             ELSE SkipComments(lines, nxt, pos + 1)
    ELSE [line |-> line, pos |-> pos]

\* the second loop left out: the rest of the opening line is the content
SkipBlank_none(lines, line, pos) == line

\* while strip(line) == '': line = readline(); if not line: break
RECURSIVE SkipBlank(_, _, _)
SkipBlank(lines, line, pos) ==
    IF strip(line) = ""
    THEN LET nxt == readline(lines, pos)
         IN  IF nxt = "" THEN "" ELSE SkipBlank(lines, nxt, pos + 1)
    ELSE line

\* the body of "if lastupdate < mtime": what synopsis reads out of the file
ReadSynopsis(lines) ==
    LET first   == SkipComments(lines, readline(lines, 1), 2)
        joined  == IF Suffix(first.line, 2) = "\\\n"
                   THEN [line |-> DropLast(first.line, 2) \o readline(lines, first.pos),
                         pos  |-> first.pos + 1]
                   ELSE first
        line    == strip(joined.line)
    IN  IF Prefix(line, 3) = "\"\"\""
        THEN Some(strip(SplitFirst(SkipBlank(lines, DropFirst(line, 3), joined.pos),
                                   "\"\"\"")))
        ELSE None

\* lastupdate < mtime
Newer_orEqual(lastupdate, mtime) == lastupdate <= mtime
Newer(lastupdate, mtime) == lastupdate < mtime

\* cache.get(filename, (0, None))
CacheGet(c, filename) ==
    IF filename \in DOMAIN c THEN c[filename] ELSE [mtime |-> 0, result |-> None]

\* cache[filename] = (mtime, result)
CachePut(c, filename, entry) ==
    [p \in DOMAIN c \cup {filename} |-> IF p = filename THEN entry ELSE c[p]]

\* synopsis(filename): the value returned, the cache afterwards, and whether
\* the file was opened
synopsis(fsys, c, filename) ==
    LET mtime == fsys[filename].mtime
        entry == CacheGet(c, filename)
    IN  IF Newer(entry.mtime, mtime)
        THEN LET result == ReadSynopsis(fsys[filename].lines)
             IN  [result |-> result,
                  cache  |-> CachePut(c, filename, [mtime |-> mtime, result |-> result]),
                  opened |-> TRUE]
        ELSE [result |-> entry.result, cache |-> c, opened |-> FALSE]

-----------------------------------------------------------------------------
(* The host: os.path, os.listdir, imp.get_suffixes, sys.path, sys.builtin_module_names *)

Dir == [kind |-> "dir", mtime |-> 1, lines |-> <<>>]
File(mtime, lines) == [kind |-> "file", mtime |-> mtime, lines |-> lines]

isdir(fsys, path) == path \in DOMAIN fsys /\ fsys[path].kind = "dir"
isfile(fsys, path) == path \in DOMAIN fsys /\ fsys[path].kind = "file"

\* os.path.join(dir, file)
os_path_join(dir, file) == dir \o "/" \o file

\* os.path.basename(path)
RECURSIVE basename(_)
basename(path) ==
    LET at == find(path, "/") IN IF at < 0 THEN path ELSE basename(DropFirst(path, at + 1))

\* os.listdir(dir): the names in dir (in no particular order)
listdir(fsys, dir) ==
    {DropFirst(p, Len(dir) + 1) :
        p \in {q \in DOMAIN fsys : /\ Len(q) > Len(dir) + 1
                                   /\ Prefix(q, Len(dir) + 1) = dir \o "/"
                                   /\ find(DropFirst(q, Len(dir) + 1), "/") < 0}}

\* imp.get_suffixes(), after suffixes.sort(); suffixes.reverse(): longest first
Suffixes == <<"module.so", ".pyc", ".so", ".py">>

\* the order of Python's string comparison, on the characters of file names
Ascii ==
    " -./0123456789ABCDEFGHIJKLMNOPQRSTUVWXYZ_abcdefghijklmnopqrstuvwxyz"
Ord(c) == find(Ascii, c)

RECURSIVE StrLess(_, _)
StrLess(a, b) ==
    IF b = "" THEN FALSE
    ELSE IF a = "" THEN TRUE
    ELSE IF CharAt(a, 1) = CharAt(b, 1) THEN StrLess(DropFirst(a, 1), DropFirst(b, 1))
    ELSE Ord(CharAt(a, 1)) < Ord(CharAt(b, 1))

\* string.lower
UpperCase == "ABCDEFGHIJKLMNOPQRSTUVWXYZ"
LowerCase == "abcdefghijklmnopqrstuvwxyz"
RECURSIVE lower(_)
lower(s) ==
    IF s = "" THEN ""
    ELSE LET c == CharAt(s, 1)
             at == find(UpperCase, c)
         IN  (IF at >= 0 THEN CharAt(LowerCase, at + 1) ELSE c) \o lower(DropFirst(s, 1))

\* sys.path, the working directory, sys.builtin_module_names and the __doc__
\* of each built-in module
SysPath == <<"", "/a", "/b", "/a", "/none">>
Cwd == "/a"
BuiltinModuleNames == <<"__main__", "sys", "imp">>
BuiltinDoc(modname) ==
    CASE modname = "sys" -> Some("System b.\nObjects and functions.")
      [] OTHER -> None

\* os.path.abspath(dir or '.')
abspath(dir) == IF dir = "" \/ dir = "." THEN Cwd ELSE dir

\* pathdirs(): sys.path as a list of absolute, existing, unique paths
RECURSIVE pathdirsFrom(_, _, _)
pathdirsFrom(fsys, path, dirs) ==
    IF path = <<>> THEN dirs
    ELSE LET dir == abspath(Head(path))
         IN  pathdirsFrom(fsys, Tail(path),
                 IF (\A i \in 1..Len(dirs) : dirs[i] # dir) /\ isdir(fsys, dir)
                 THEN Append(dirs, dir) ELSE dirs)
pathdirs(fsys) == pathdirsFrom(fsys, SysPath, <<>>)

\* modulename(path): the module name for a path, or None
RECURSIVE modulenameFrom(_, _)
modulenameFrom(filename, i) ==
    IF i > Len(Suffixes) THEN None
    ELSE IF Len(filename) > Len(Suffixes[i])
            /\ Suffix(filename, Len(Suffixes[i])) = Suffixes[i]
         THEN Some(DropLast(filename, Len(Suffixes[i])))
         ELSE modulenameFrom(filename, i + 1)
modulename(path) == modulenameFrom(basename(path), 1)

\* ispackage(path)
ispackage(fsys, path) ==
    /\ isdir(fsys, path)
    /\ \/ isfile(fsys, os_path_join(path, "__init__.py"))
       \/ isfile(fsys, os_path_join(path, "__init__.pyc"))

-----------------------------------------------------------------------------
(* class Scanner and class ModuleScanner *)

\* package + (package and '.') + name
Qualify(package, name) == package \o (IF package # "" THEN "." ELSE package) \o name

\* the order of children.sort() on (path, package) tuples
NodeLess(a, b) == StrLess(a[1], b[1]) \/ (a[1] = b[1] /\ StrLess(a[2], b[2]))

RECURSIVE SortNodes(_)
SortNodes(S) ==
    IF S = {} THEN <<>>
    ELSE LET m == CHOOSE x \in S : \A y \in S : x = y \/ NodeLess(x, y)
         IN  <<m>> \o SortNodes(S \ {m})

\* ModuleScanner.submodules((dir, package))
submodules(fsys, n) ==
    SortNodes({ IF ispackage(fsys, os_path_join(n[1], file))
                THEN <<os_path_join(n[1], file), Qualify(n[2], file)>>
                ELSE <<os_path_join(n[1], file), n[2]>> : file \in listdir(fsys, n[1]) })

\* ModuleScanner.ispackage((dir, package)), the scanner's recurse
recurse(fsys, n) == ispackage(fsys, n[1])

\* ModuleScanner.__init__: the roots handed to Scanner.__init__
ScannerRoots(fsys) == [i \in 1..Len(pathdirs(fsys)) |-> <<pathdirs(fsys)[i], "">>]

\* self.state.append((child, self.children(child)))
Push_depthLost(st, frame) == <<frame>> \o st
Push(st, frame) == Append(st, frame)

\* Scanner.next(): the node returned (None at the end) and the scanner afterwards
RECURSIVE Scanner_next(_, _, _)
Scanner_next(fsys, rs, st) ==
    IF st = <<>> /\ rs = <<>>
    THEN [result |-> None, roots |-> rs, state |-> st]
    ELSE LET rs1 == IF st = <<>> THEN Tail(rs) ELSE rs
             st1 == IF st = <<>>
                    THEN <<[node |-> Head(rs), children |-> submodules(fsys, Head(rs))]>>
                    ELSE st
             top == st1[Len(st1)]
         IN  IF top.children = <<>>
             THEN Scanner_next(fsys, rs1, SubSeq(st1, 1, Len(st1) - 1))
             ELSE LET child  == Head(top.children)
                      popped == [st1 EXCEPT ![Len(st1)].children = Tail(top.children)]
                  IN  [result |-> Some(child),
                       roots  |-> rs1,
                       state  |-> IF recurse(fsys, child)
                                  THEN Push(popped, [node |-> child,
                                                     children |-> submodules(fsys, child)])
                                  ELSE popped]

-----------------------------------------------------------------------------
(* ModuleScanner.run(key, callback, completer), one thread, and the thread
   that sets the quit flag *)

Keys == {"M", "beta", "zz"}

\* find(lower(modname + ' - ' + desc), lower(key)) >= 0
Matches_caseSensitive(modname, desc, k) == find(modname \o " - " \o desc, k) >= 0
Matches(modname, desc, k) == find(lower(modname \o " - " \o desc), lower(k)) >= 0

\* split(__import__(modname).__doc__ or '', '\n')[0]
BuiltinDesc(modname) ==
    SplitFirst(IF BuiltinDoc(modname) = None THEN "" ELSE BuiltinDoc(modname)[1], "\n")

\* while not self.quit
WhileTest_never(q) == TRUE
WhileTest(q) == q = 0

\* if not seen.has_key(modname)
NotSeen_always(seenNames, modname) == TRUE
NotSeen(seenNames, modname) == modname \notin seenNames

MatchEvent(path, modname, desc) ==
    [ev |-> "match", path |-> path, modname |-> modname, desc |-> desc]
DoneEvent == [ev |-> "done", path |-> None, modname |-> "", desc |-> ""]

\* if completer: completer()
Complete_skipped(has, evs) == evs
Complete(has, evs) == IF has THEN Append(evs, DoneEvent) ELSE evs

\* the thread of run() is started
RunStart ==
    /\ pc = "idle"
    /\ runs < MaxRuns
    /\ key' \in Keys
    /\ hasCompleter' \in BOOLEAN
    /\ runs' = runs + 1
    /\ pc' = "init"
    /\ events' = <<>>
    /\ runFrom' = Len(visited)
    /\ quitAt' = ""
    /\ afterQuit' = [next |-> 0, walk |-> 0, builtin |-> 0]
    /\ UNCHANGED <<roots, state, quit, seen, bi, node, visited, exhausted>>
    /\ UNCHANGED synVars
    /\ UNCHANGED <<srvVars, pageVars>>

\* run() as it would be if it began the traversal anew
RunInit_rewind ==
    /\ pc = "init"
    /\ quit' = 0
    /\ seen' = {}
    /\ bi' = 1
    /\ roots' = ScannerRoots(fs)
    /\ state' = <<>>
    /\ pc' = "builtins"
    /\ UNCHANGED <<key, hasCompleter, node, events, visited, runs,
                   runFrom, exhausted, quitAt, afterQuit>>
    /\ UNCHANGED synVars
    /\ UNCHANGED <<srvVars, pageVars>>

\* self.quit = 0; seen = {}
RunInit ==
    /\ pc = "init"
    /\ quit' = 0
    /\ seen' = {}
    /\ bi' = 1
    /\ pc' = "builtins"
    /\ UNCHANGED <<roots, state, key, hasCompleter, node, events, visited, runs,
                   runFrom, exhausted, quitAt, afterQuit>>
    /\ UNCHANGED synVars
    /\ UNCHANGED <<srvVars, pageVars>>

\* one iteration of "for modname in sys.builtin_module_names", up to the call
\* of callback
RunBuiltin ==
    /\ pc = "builtins"
    /\ bi <= Len(BuiltinModuleNames)
    /\ LET modname == BuiltinModuleNames[bi]
           desc    == BuiltinDesc(modname)
           call    == modname # "__main__" /\ Matches(modname, desc, key)
       IN  /\ bi' = bi + 1
           /\ seen' = IF modname # "__main__" THEN seen \cup {modname} ELSE seen
           /\ events' = IF call THEN Append(events, MatchEvent(None, modname, desc))
                        ELSE events
           /\ pc' = IF call THEN "bcallback" ELSE "builtins"
           /\ afterQuit' = IF call /\ quitAt # ""
                           THEN [afterQuit EXCEPT !.builtin = @ + 1] ELSE afterQuit
    /\ UNCHANGED <<roots, state, quit, key, hasCompleter, node, visited, runs,
                   runFrom, exhausted, quitAt>>
    /\ UNCHANGED synVars
    /\ UNCHANGED <<srvVars, pageVars>>

\* the for loop is over
RunBuiltinsDone ==
    /\ pc = "builtins"
    /\ bi > Len(BuiltinModuleNames)
    /\ pc' = "while"
    /\ UNCHANGED <<roots, state, quit, seen, key, hasCompleter, bi, node, events,
                   visited, runs, runFrom, exhausted, quitAt, afterQuit>>
    /\ UNCHANGED synVars
    /\ UNCHANGED <<srvVars, pageVars>>

\* callback(...) returns
CallbackReturn ==
    /\ pc \in {"bcallback", "wcallback"}
    /\ pc' = IF pc = "bcallback" THEN "builtins" ELSE "while"
    /\ UNCHANGED <<roots, state, quit, seen, key, hasCompleter, bi, node, events,
                   visited, runs, runFrom, exhausted, quitAt, afterQuit>>
    /\ UNCHANGED synVars
    /\ UNCHANGED <<srvVars, pageVars>>

\* while not self.quit:
RunWhile ==
    /\ pc = "while"
    /\ pc' = IF WhileTest(quit) THEN "next" ELSE "completer"
    /\ UNCHANGED <<roots, state, quit, seen, key, hasCompleter, bi, node, events,
                   visited, runs, runFrom, exhausted, quitAt, afterQuit>>
    /\ UNCHANGED synVars
    /\ UNCHANGED <<srvVars, pageVars>>

\* node = self.next(); if not node: break
RunNext ==
    /\ pc = "next"
    /\ LET r == Scanner_next(fs, roots, state)
       IN  /\ roots' = r.roots
           /\ state' = r.state
           /\ node' = r.result
           /\ visited' = IF r.result = None THEN visited ELSE Append(visited, r.result[1])
           /\ exhausted' = (exhausted \/ r.result = None)
           /\ pc' = IF r.result = None THEN "completer" ELSE "node"
    /\ afterQuit' = IF quitAt # "" THEN [afterQuit EXCEPT !.next = @ + 1] ELSE afterQuit
    /\ UNCHANGED <<quit, seen, key, hasCompleter, bi, events, runs, runFrom, quitAt>>
    /\ UNCHANGED synVars
    /\ UNCHANGED <<srvVars, pageVars>>

\* the body of the while loop after self.next(), up to the call of callback
RunNode ==
    /\ pc = "node"
    /\ LET path     == node[1][1]
           package  == node[1][2]
           name     == modulename(path)
           isModule == isfile(fs, path) /\ name # None
           modname  == IF isModule THEN Qualify(package, name[1]) ELSE ""
           examine  == isModule /\ NotSeen(seen, modname)
           syn      == synopsis(fs, cache, path)
           desc     == IF syn.result = None THEN "" ELSE syn.result[1]
           call     == examine /\ Matches(modname, desc, key)
       IN  /\ seen' = IF examine THEN seen \cup {modname} ELSE seen
           /\ cache' = IF examine THEN syn.cache ELSE cache
           /\ lastSyn' = IF examine THEN None ELSE lastSyn
           /\ events' = IF call THEN Append(events, MatchEvent(Some(path), modname, desc))
                        ELSE events
           /\ pc' = IF call THEN "wcallback" ELSE "while"
           /\ afterQuit' = IF call /\ quitAt # ""
                           THEN [afterQuit EXCEPT !.walk = @ + 1] ELSE afterQuit
    /\ UNCHANGED <<roots, state, quit, key, hasCompleter, bi, node, visited, runs,
                   runFrom, exhausted, quitAt, fs>>
    /\ UNCHANGED <<srvVars, pageVars>>

\* if completer: completer(); run returns
RunComplete ==
    /\ pc = "completer"
    /\ events' = Complete(hasCompleter, events)
    /\ pc' = "idle"
    /\ UNCHANGED <<roots, state, quit, seen, key, hasCompleter, bi, node, visited,
                   runs, runFrom, exhausted, quitAt, afterQuit>>
    /\ UNCHANGED synVars
    /\ UNCHANGED <<srvVars, pageVars>>

\* another thread executes scanner.quit = 1 (GUI.search, GUI.stop) while the
\* thread of run() is alive
SetQuit ==
    /\ pc # "idle"
    /\ quit = 0
    /\ quit' = 1
    /\ quitAt' = IF pc = "init" \/ quitAt # "" THEN quitAt ELSE pc
    /\ UNCHANGED <<roots, state, seen, pc, key, hasCompleter, bi, node, events,
                   visited, runs, runFrom, exhausted, afterQuit>>
    /\ UNCHANGED synVars
    /\ UNCHANGED <<srvVars, pageVars>>

-----------------------------------------------------------------------------
(* The directory trees the scanner is run on *)

\* no request or command has been handled
IdleServer ==
    /\ sysModules = {}
    /\ boundary = ""
    /\ hpc = "idle"
    /\ arg = None
    /\ writing = FALSE
    /\ loc = None
    /\ out = <<>>
    /\ raised = None
    /\ arose = ""

DocString(text) == "\"\"\"" \o text \o "\"\"\"\n"

TreeFiles ==
    [p \in {"/a", "/a/README", "/a/m.py", "/a/m.pyc", "/a/pkg", "/a/pkg/__init__.py",
            "/a/pkg/in", "/a/pkg/in/__init__.pyc", "/a/pkg/n.py", "/a/plain",
            "/a/plain/x.py", "/b", "/b/m.py", "/b/sys.py"} |->
        CASE p \in {"/a", "/a/pkg", "/a/pkg/in", "/a/plain", "/b"} -> Dir
          [] p = "/a/m.py" -> File(1, <<"#!/usr/bin/env python\n", DocString("Mod one.")>>)
          [] p = "/a/m.pyc" -> File(2, <<"\r\n">>)
          [] p = "/a/pkg/__init__.py" -> File(1, <<"\"\"\"\n", "Pkg M.\n", "\"\"\"\n">>)
          [] p = "/a/pkg/n.py" -> File(1, <<"import m\n">>)
          [] p = "/b/m.py" -> File(1, <<DocString("Beta.")>>)
          [] p = "/b/sys.py" -> File(1, <<DocString("Shadows beta.")>>)
          [] OTHER -> File(1, <<>>)]

\* the files that some of the trees lack
OptionalFiles == {"/a/m.py", "/a/m.pyc", "/a/pkg/__init__.py"}

Trees ==
    {[p \in DOMAIN TreeFiles \ absent |-> TreeFiles[p]] : absent \in SUBSET OptionalFiles}

ScanInit ==
    /\ fs \in Trees
    /\ cache = <<>>
    /\ lastSyn = None
    /\ roots = ScannerRoots(fs)
    /\ state = <<>>
    /\ quit = 0
    /\ seen = {}
    /\ pc = "idle"
    /\ key = ""
    /\ hasCompleter = FALSE
    /\ bi = 1
    /\ node = None
    /\ events = <<>>
    /\ visited = <<>>
    /\ runs = 0
    /\ runFrom = 0
    /\ exhausted = FALSE
    /\ quitAt = ""
    /\ afterQuit = [next |-> 0, walk |-> 0, builtin |-> 0]
    /\ IdleServer
    /\ IdlePages

ScanNext ==
    \/ RunStart
    \/ RunInit
    \/ RunBuiltin
    \/ RunBuiltinsDone
    \/ CallbackReturn
    \/ RunWhile
    \/ RunNext
    \/ RunNode
    \/ RunComplete
    \/ SetQuit

vars == <<synVars, scanVars, srvVars, pageVars>>

SpecScanner == ScanInit /\ [][ScanNext]_vars

-----------------------------------------------------------------------------
(* Properties of the scanner *)

MatchEvents == {i \in 1..Len(events) : events[i].ev = "match"}

\* C2 as claimed: once the quit flag has been set while run() is executing,
\* no further onMatch callback is started, in any phase of run().
C2_NoCallbackAfterQuit == afterQuit.walk = 0 /\ afterQuit.builtin = 0

\* C2 as amended: once the quit flag has been set while run() is executing,
\* the directory walk stops at the next evaluation of its loop test.  Only a
\* traversal step that was already past the test goes on, so at most one more
\* self.next() call and at most one more onMatch callback for a module file
\* are started, and none when the flag was set outside such a step; the
\* built-in pass does not poll the flag.
C2_WalkStopsAtNextTest ==
    /\ afterQuit.next <= 1
    /\ afterQuit.walk <= 1
    /\ quitAt = "node" => afterQuit.next = 0
    /\ quitAt \in {"builtins", "bcallback", "while", "wcallback", "completer"}
         => afterQuit.next = 0 /\ afterQuit.walk = 0

\* a run cancelled between the loop test and self.next() that still started
\* one callback and then stopped with most of the tree unvisited
C2_Witness ==
    /\ pc = "idle"
    /\ quitAt = "next"
    /\ afterQuit.walk = 1
    /\ Len(visited) < 5

\* a run cancelled during the built-in pass: no traversal step at all
C2_WitnessBuiltin ==
    /\ pc = "idle"
    /\ quitAt = "bcallback"
    /\ runs = 1
    /\ visited = <<>>

\* C3: within one run, onMatch is invoked at most once per fully-qualified
\* module name.
C3_OncePerName ==
    \A i, j \in MatchEvents : i < j => events[i].modname # events[j].modname

\* an uncancelled run over the tree in which "m" has three providers and the
\* built-in "sys" is shadowed by a file, both reported
C3_Witness ==
    /\ pc = "idle"
    /\ runs = 1
    /\ quit = 0
    /\ OptionalFiles \subseteq DOMAIN fs
    /\ \E i \in MatchEvents : events[i].modname = "m"
    /\ \E i \in MatchEvents : events[i].modname = "sys"

\* C4: run invokes the completer exactly once per run, after the last onMatch
\* invocation, when the traversal is exhausted and when the quit flag stops it.
C4_CompleterOnceLast ==
    /\ \A i \in 1..Len(events) :
         events[i].ev = "done" => i = Len(events) /\ pc = "idle"
    /\ (pc = "idle" /\ runs > 0 /\ hasCompleter)
         => (events # <<>> /\ events[Len(events)].ev = "done")

\* a run stopped by the quit flag during the walk, after a callback
C4_Witness ==
    /\ pc = "idle"
    /\ hasCompleter
    /\ quitAt \in {"while", "next", "node", "wcallback"}
    /\ ~exhausted
    /\ Len(events) >= 2
    /\ events[Len(events)].ev = "done"

\* the nodes self.next() returned to the current run
RunNodes == SubSeq(visited, runFrom + 1, Len(visited))

C5_IsModuleFile(n) == isfile(fs, n[1]) /\ modulename(n[1]) # None
C5_Name(n) == Qualify(n[2], modulename(n[1])[1])
C5_Desc(n) ==
    LET r == ReadSynopsis(fs[n[1]].lines) IN IF r = None THEN "" ELSE r[1]
C5_Builtins == {BuiltinModuleNames[i] : i \in 1..Len(BuiltinModuleNames)} \ {"__main__"}

\* case-insensitive containment, character by character
C5_Fold(c) ==
    IF \E i \in 1..26 : CharAt(UpperCase, i) = c
    THEN CharAt(LowerCase, CHOOSE i \in 1..26 : CharAt(UpperCase, i) = c)
    ELSE c
C5_Contains(hay, needle) ==
    \E off \in 0..(Len(hay) - Len(needle)) :
        \A k \in 1..Len(needle) :
            C5_Fold(CharAt(hay, off + k)) = C5_Fold(CharAt(needle, k))
C5_Hit(modname, desc) == C5_Contains(modname \o " - " \o desc, key)

C5_Reported == {<<events[i].path, events[i].modname, events[i].desc>> : i \in MatchEvents}

\* the first node of this run that provides each name no built-in has
C5_FirstProviders ==
    {i \in 1..Len(RunNodes) :
        /\ C5_IsModuleFile(RunNodes[i])
        /\ C5_Name(RunNodes[i]) \notin C5_Builtins
        /\ \A j \in 1..(i - 1) :
             ~(C5_IsModuleFile(RunNodes[j]) /\ C5_Name(RunNodes[j]) = C5_Name(RunNodes[i]))}

C5_Expected ==
    {<<None, b, BuiltinDesc(b)>> : b \in {b \in C5_Builtins : C5_Hit(b, BuiltinDesc(b))}}
    \cup
    {<<Some(RunNodes[i][1]), C5_Name(RunNodes[i]), C5_Desc(RunNodes[i])>> :
        i \in {i \in C5_FirstProviders : C5_Hit(C5_Name(RunNodes[i]), C5_Desc(RunNodes[i]))}}

\* C5 as claimed: in an uncancelled run, onMatch is called for every built-in
\* module and every module file reached by the traversal whose string
\* 'modname - synopsis' contains the keyword case-insensitively, and for no
\* other.
C5_EveryMatchingModuleFile ==
    (pc = "idle" /\ runs > 0 /\ quit = 0) =>
        /\ \A b \in C5_Builtins :
             C5_Hit(b, BuiltinDesc(b)) <=> \E i \in MatchEvents : events[i].modname = b
        /\ \A k \in 1..Len(RunNodes) :
             C5_IsModuleFile(RunNodes[k]) =>
                (C5_Hit(C5_Name(RunNodes[k]), C5_Desc(RunNodes[k]))
                   <=> \E i \in MatchEvents : events[i].path = Some(RunNodes[k][1]))

\* C5 as amended: in an uncancelled run, onMatch is called for exactly the
\* fully-qualified module names whose string 'modname - desc' contains the
\* keyword case-insensitively, where a name is judged on its first provider
\* only: the built-in module of that name, else the first module file of that
\* name the traversal reaches, with desc the value of synopsis(path) or ''.
\* Later files of a name already examined are not considered.
C5_EveryMatchingName ==
    (pc = "idle" /\ runs > 0 /\ quit = 0) => C5_Reported = C5_Expected

\* an uncancelled first run with an upper-case key that reports both built-in
\* and file modules while later providers of "m" and "sys" are passed over
C5_Witness ==
    /\ pc = "idle"
    /\ runs = 1
    /\ quit = 0
    /\ key = "M"
    /\ OptionalFiles \subseteq DOMAIN fs
    /\ Cardinality(C5_Reported) >= 3
    /\ \E i \in MatchEvents : events[i].path = Some("/a/m.py")

\* the nodes under the children cs, depth first, each before its descendants
RECURSIVE C6_PreorderOf(_, _)
C6_PreorderOf(fsys, cs) ==
    IF cs = <<>> THEN <<>>
    ELSE <<Head(cs)>>
         \o (IF ispackage(fsys, Head(cs)[1])
             THEN C6_PreorderOf(fsys, submodules(fsys, Head(cs))) ELSE <<>>)
         \o C6_PreorderOf(fsys, Tail(cs))

RECURSIVE C6_Preorder(_, _)
C6_Preorder(fsys, rs) ==
    IF rs = <<>> THEN <<>>
    ELSE C6_PreorderOf(fsys, submodules(fsys, Head(rs))) \o C6_Preorder(fsys, Tail(rs))

\* the pre-order of each tree that the scanner is run on
C6_PreorderOfTree == [t \in Trees |-> C6_Preorder(t, ScannerRoots(t))]

\* C6: repeated calls of Scanner.next return the descendants of the roots
\* exactly once each, in depth-first pre-order, descending only where recurse
\* holds, never a root itself, and None from the end of the tree on.
C6_DepthFirstPreorder ==
    LET pre == C6_PreorderOfTree[fs]
    IN  /\ Len(visited) <= Len(pre)
        /\ visited = SubSeq(pre, 1, Len(visited))
        /\ \A i, j \in 1..Len(visited) : i < j => visited[i] # visited[j]
        /\ \A i \in 1..Len(visited), r \in 1..Len(ScannerRoots(fs)) :
             visited[i] # ScannerRoots(fs)[r]
        /\ exhausted => (visited = pre /\ roots = <<>> /\ state = <<>>)

\* a second run on an exhausted scanner: next() returned None again, after the
\* whole tree (with its nested packages) had been returned
C6_Witness ==
    /\ exhausted
    /\ runs = 2
    /\ runFrom = Len(visited)
    /\ pc = "completer"
    /\ quit = 0
    /\ Len(visited) >= 11
    /\ \E i \in 1..Len(visited) : visited[i] = <<"/a/pkg/in/__init__.pyc", "pkg.in">>

-----------------------------------------------------------------------------
(* synopsis() called again and again on files that change in between *)

SynPaths == {"/a/m.py", "/b/m.py"}

SynContents ==
    { <<"# comment\n", "\n", "\"\"\"Example summary.\n", "\n", "More.\n", "\"\"\"\n">>,
      <<"\"\"\"\n", "Second line.\"\"\" \n">>,
      <<"import os\n">>,
      <<"# only a comment\n", "\n">>,
      <<>> }

IdleScanner ==
    /\ roots = <<>>
    /\ state = <<>>
    /\ quit = 0
    /\ seen = {}
    /\ pc = "idle"
    /\ key = ""
    /\ hasCompleter = FALSE
    /\ bi = 1
    /\ node = None
    /\ events = <<>>
    /\ visited = <<>>
    /\ runs = 0
    /\ runFrom = 0
    /\ exhausted = FALSE
    /\ quitAt = ""
    /\ afterQuit = [next |-> 0, walk |-> 0, builtin |-> 0]

SynInit ==
    /\ fs \in [SynPaths -> {File(t, c) : t \in 0..MaxTime, c \in SynContents}]
    /\ cache = <<>>
    /\ lastSyn = None
    /\ IdleScanner
    /\ IdleServer
    /\ IdlePages

\* the file is written, or its modification time is set
Modify(p) ==
    /\ \E t \in 0..MaxTime, c \in SynContents :
         /\ File(t, c) # fs[p]
         /\ fs' = [fs EXCEPT ![p] = File(t, c)]
    /\ lastSyn' = None
    /\ UNCHANGED cache
    /\ UNCHANGED scanVars
    /\ UNCHANGED <<srvVars, pageVars>>

\* a call synopsis(p)
SynopsisCall(p) ==
    /\ LET r == synopsis(fs, cache, p)
       IN  /\ cache' = r.cache
           /\ lastSyn' = Some([path   |-> p,
                               prior  |-> IF p \in DOMAIN cache THEN Some(cache[p]) ELSE None,
                               opened |-> r.opened,
                               result |-> r.result])
    /\ UNCHANGED fs
    /\ UNCHANGED scanVars
    /\ UNCHANGED <<srvVars, pageVars>>

SynNext == \E p \in SynPaths : Modify(p) \/ SynopsisCall(p)

SpecSynopsis == SynInit /\ [][SynNext]_vars

\* C1: a synopsis call on a cached path re-reads the file exactly when the
\* file's mtime is strictly greater than the cached mtime; otherwise it
\* returns the cached synopsis (a cached None too) without opening the file
\* and leaves the entry alone; after a re-read the entry is (current mtime,
\* freshly extracted synopsis) and that synopsis is what is returned.
C1_RereadIffNewer ==
    (lastSyn # None /\ lastSyn[1].prior # None) =>
        LET call  == lastSyn[1]
            prior == call.prior[1]
            file  == fs[call.path]
        IN  /\ call.opened <=> file.mtime > prior.mtime
            /\ call.opened =>
                 /\ cache[call.path] = [mtime |-> file.mtime,
                                        result |-> ReadSynopsis(file.lines)]
                 /\ call.result = ReadSynopsis(file.lines)
            /\ ~call.opened =>
                 /\ call.result = prior.result
                 /\ cache[call.path] = prior

\* a call that found the file newer than its entry and returned another
\* synopsis than the cached one
C1_Witness ==
    /\ lastSyn # None
    /\ lastSyn[1].prior # None
    /\ lastSyn[1].opened
    /\ lastSyn[1].result # lastSyn[1].prior[1].result
    /\ lastSyn[1].result = Some("Example summary.")

\* a call answered from a cached None although the file now has a synopsis
\* (its mtime did not advance)
C1_WitnessCachedNone ==
    /\ lastSyn # None
    /\ lastSyn[1].prior # None
    /\ ~lastSyn[1].opened
    /\ lastSyn[1].result = None
    /\ ReadSynopsis(fs[lastSyn[1].path].lines) # None

-----------------------------------------------------------------------------
(* The modules and objects that names are resolved against *)

\* string.split(s, sep)
RECURSIVE split(_, _)
split(s, sep) ==
    LET at == find(s, sep)
    IN  IF at < 0 THEN <<s>>
        ELSE <<Prefix(s, at)>> \o split(DropFirst(s, at + Len(sep)), sep)

\* string.join(words, sep)
RECURSIVE join(_, _)
join(words, sep) ==
    IF words = <<>> THEN ""
    ELSE IF Len(words) = 1 THEN words[1]
    ELSE words[1] \o sep \o join(Tail(words), sep)

\* the module files on the search path: what loading each one does.  "ok"
\* loads; "syntax" does not compile (SyntaxError, the module is not
\* registered); "raises" fails while its code runs (the module stays
\* registered in sys.modules)
World ==
    [m \in {"os", "pkg", "pkg.sub", "pkg.bad", "boom"} |->
        CASE m = "os"      -> [status |-> "ok", file |-> "/lib/os.py", exc |-> ""]
          [] m = "pkg"     -> [status |-> "ok", file |-> "/lib/pkg/__init__.py", exc |-> ""]
          [] m = "pkg.sub" -> [status |-> "ok", file |-> "/lib/pkg/sub.py", exc |-> ""]
          [] m = "pkg.bad" -> [status |-> "syntax", file |-> "/lib/pkg/bad.py",
                               exc |-> "SyntaxError"]
          [] m = "boom"    -> [status |-> "raises", file |-> "/lib/boom.py",
                               exc |-> "ZeroDivisionError"]]

Object(id, kind, truthy) == [id |-> id, kind |-> kind, truthy |-> truthy]
ModuleObject(name) == Object(name, "module", TRUE)

\* the attributes that the code of the modules and classes defines
Attributes ==
    [a \in {<<"os", "sep">>, <<"os", "F_OK">>, <<"os", "getcwd">>,
            <<"pkg.sub", "func">>, <<"pkg.sub", "Cls">>, <<"pkg.sub.Cls", "meth">>} |->
        CASE a = <<"os", "sep">>   -> Object("os.sep", "other", TRUE)
          [] a = <<"os", "F_OK">>  -> Object("os.F_OK", "other", FALSE)
          [] a = <<"pkg.sub", "Cls">> -> Object("pkg.sub.Cls", "class", TRUE)
          [] OTHER -> Object(a[1] \o "." \o a[2], "routine", TRUE)]

\* the names for which hasattr(__builtins__, name) holds
BuiltinsAttrs == {"len"}
BuiltinObject(name) == Object("__builtin__." \o name, "routine", TRUE)

\* getattr(x, p): None stands for AttributeError.  A submodule is an
\* attribute of its package once it has been imported
getattr(x, p, mods) ==
    LET sub == x.id \o "." \o p
    IN  IF x.kind = "module" /\ sub \in mods /\ World[sub].status = "ok"
        THEN Some(ModuleObject(sub))
        ELSE IF <<x.id, p>> \in DOMAIN Attributes THEN Some(Attributes[<<x.id, p>>])
        ELSE None

\* x = module; for p in parts[1:]: x = getattr(x, p)
RECURSIVE Walk(_, _, _)
Walk(x, ps, mods) ==
    IF ps = <<>> THEN Some(x)
    ELSE LET y == getattr(x, Head(ps), mods)
         IN  IF y = None THEN None ELSE Walk(y[1], Tail(ps), mods)

\* __import__(path): the packages of the dotted path are imported left to
\* right, each one loaded unless sys.modules already has it
RECURSIVE ImportFrom(_, _, _)
ImportFrom(parts, n, mods) ==
    IF n > Len(parts) THEN [raised |-> FALSE, exc |-> "", filename |-> "", modules |-> mods]
    ELSE LET name == join(SubSeq(parts, 1, n), ".")
         IN  IF name \in mods THEN ImportFrom(parts, n + 1, mods)
             ELSE IF name \notin DOMAIN World
             THEN [raised |-> TRUE, exc |-> "ImportError", filename |-> "", modules |-> mods]
             ELSE IF World[name].status = "syntax"
             THEN [raised |-> TRUE, exc |-> "SyntaxError", filename |-> World[name].file,
                   modules |-> mods]
             ELSE IF World[name].status = "raises"
             THEN [raised |-> TRUE, exc |-> World[name].exc, filename |-> "",
                   modules |-> mods \cup {name}]
             ELSE ImportFrom(parts, n + 1, mods \cup {name})

\* module = __import__(path); module = reload(module): reload runs the code
\* of the top-level module that __import__ returned once more
ImportAndReload(path, mods) ==
    LET imported == ImportFrom(split(path, "."), 1, mods)
        top      == split(path, ".")[1]
    IN  IF imported.raised THEN imported
        ELSE IF World[top].status # "ok"
        THEN [raised |-> TRUE, exc |-> World[top].exc, filename |-> World[top].file,
              modules |-> imported.modules]
        ELSE imported

\* the except clause of locate: the file to report (sys.modules[path].__file__
\* or sys.exc_value.filename), or None for "module not found, so stop looking"
FailureFile_registeredOnly(path, imp) ==
    IF path \in imp.modules THEN Some(World[path].file) ELSE None
FailureFile(path, imp) ==
    IF path \in imp.modules THEN Some(World[path].file)
    ELSE IF imp.exc = "SyntaxError" THEN Some(imp.filename)
    ELSE None

Returned(pkg, obj, mods, failed) ==
    [raise |-> FALSE, pkg |-> pkg, obj |-> obj, filename |-> "", etype |-> "",
     modules |-> mods, failed |-> failed]

\* raise DocImportError(filename, sys.exc_type, sys.exc_value)
DocImportError(filename, etype, mods, failed) ==
    [raise |-> TRUE, pkg |-> None, obj |-> None, filename |-> filename, etype |-> etype,
     modules |-> mods, failed |-> failed]

\* the end of locate: if hasattr(__builtins__, path): ...; return None, None
BuiltinFallback(path, mods, failed) ==
    IF path \in BuiltinsAttrs
    THEN Returned(None, Some(BuiltinObject(path)), mods, failed)
    ELSE Returned(None, None, mods, failed)

\* the while loop of locate from n on
RECURSIVE LocateFrom(_, _, _)
LocateFrom(parts, n, mods) ==
    IF n > Len(parts) THEN BuiltinFallback(join(parts, "."), mods, None)
    ELSE LET path == join(SubSeq(parts, 1, n), ".")
             imp  == ImportAndReload(path, mods)
             fail == Some([path |-> path, exc |-> imp.exc])
         IN  IF imp.raised
             THEN IF FailureFile(path, imp) # None
                  THEN DocImportError(FailureFile(path, imp)[1], imp.exc, imp.modules, fail)
                  ELSE BuiltinFallback(path, imp.modules, fail)
             ELSE LET x == Walk(ModuleObject(parts[1]), Tail(parts), imp.modules)
                  IN  IF x # None
                      THEN Returned(Some(join(SubSeq(parts, 1, Len(parts) - 1), ".")),
                                    x, imp.modules, None)
                      ELSE LocateFrom(parts, n + 1, imp.modules)

\* an argument that is a string, and one that is an object
Name(s) == [isString |-> TRUE, str |-> s, obj |-> None]
Thing(o) == [isString |-> FALSE, str |-> "", obj |-> Some(o)]

\* locate(path)
locate(path, mods) ==
    IF (path.isString /\ path.str = "") \/ (~path.isString /\ ~path.obj[1].truthy)
    THEN Returned(None, None, mods, None)
    ELSE IF ~path.isString THEN Returned(None, path.obj, mods, None)
    ELSE LocateFrom(split(path.str, "."), 1, mods)

-----------------------------------------------------------------------------
(* The boundaries: DocHandler.do_GET, doc and the argument loop of cli.  Each
   handles one request or command to completion before the next is taken *)

Names == {"", "os", "os.sep", "os.F_OK", "pkg.sub.func", "pkg.sub.Cls.meth", "pkg.bad",
          "boom", "nosuchmodule123", "os.nosuch", "len", "len.foo"}

\* the request paths of GET
GetPaths == {"/", "/.", "/.html", "/os"} \cup {"/" \o n \o ".html" : n \in Names \ {""}}

\* the objects handed to doc() directly
Things == {ModuleObject("os"), Attributes[<<"pkg.sub", "Cls">>], Object("42", "other", TRUE)}

\* the command-line arguments
CliArgs == Names \cup {"/lib/os.py", "/lib/pkg/bad.py", "/lib/none.py"}

\* the files that command-line arguments may name
LibFiles ==
    [p \in {"/lib", "/lib/pkg"} \cup {World[m].file : m \in DOMAIN World} |->
        IF p \in {"/lib", "/lib/pkg"} THEN Dir ELSE File(1, <<>>)]

Shown(via, what) == [via |-> via, what |-> what]
Propagated(etype, from) == Some([etype |-> etype, from |-> from])

\* Doc.document(object): TRUE when one of docmodule, docclass, docroutine
\* takes the object, FALSE for the TypeError
document(object) == object.kind \in {"module", "class", "routine"}

\* if x: / if object:
Truth(r) == r.obj # None /\ r.obj[1].truthy

\* the first lines of do_GET: the name asked for
RequestName(path) ==
    LET p == IF Suffix(path, 5) = ".html" THEN DropLast(path, 5) ELSE path
    IN  IF Prefix(p, 1) = "/" THEN DropFirst(p, 1) ELSE p

\* the error kind that arises when locate has returned r and the caller finds
\* nothing to show
NothingFound(r) == IF r.obj = None THEN "NotFound" ELSE ""

\* do_GET up to the call of locate, or all of it for the index
GetArrive(path) ==
    /\ hpc = "idle"
    /\ boundary' = "do_GET"
    /\ arg' = Name(RequestName(path))
    /\ writing' = FALSE
    /\ loc' = None
    /\ raised' = None
    /\ arose' = ""
    /\ IF RequestName(path) # "" /\ RequestName(path) # "."
       THEN hpc' = "resolving" /\ out' = <<>>
       ELSE hpc' = "idle" /\ out' = <<Shown("page", "index")>>
    /\ UNCHANGED sysModules
    /\ UNCHANGED <<synVars, scanVars, pageVars>>

\* try: p, x = locate(path) ... and the two pages sent without rendering
GetResolve ==
    /\ boundary = "do_GET" /\ hpc = "resolving"
    /\ LET r == locate(arg, sysModules)
       IN  /\ sysModules' = r.modules
           /\ loc' = Some(r)
           /\ IF r.raise
              THEN hpc' = "idle" /\ out' = <<Shown("page", "problem")>>
                   /\ arose' = "ImportFailure"
              ELSE IF Truth(r)
              THEN hpc' = "rendering" /\ out' = out /\ arose' = arose
              ELSE hpc' = "idle" /\ out' = <<Shown("page", "notfound")>>
                   /\ arose' = NothingFound(r)
    /\ UNCHANGED <<boundary, arg, writing, raised>>
    /\ UNCHANGED <<synVars, scanVars, pageVars>>

\* self.send_document(describe(x), html.document(x))
GetRender ==
    /\ boundary = "do_GET" /\ hpc = "rendering"
    /\ hpc' = "idle"
    /\ IF document(loc[1].obj[1])
       THEN out' = Append(out, Shown("page", "doc")) /\ UNCHANGED <<raised, arose>>
       ELSE /\ raised' = Propagated("TypeError", "Doc.document")
            /\ arose' = "UnsupportedType"
            /\ out' = out
    /\ UNCHANGED <<sysModules, boundary, arg, writing, loc>>
    /\ UNCHANGED <<synVars, scanVars, pageVars>>

\* doc(thing) up to the call of locate
DocEnter(thing) ==
    /\ hpc = "idle"
    /\ boundary' = "doc"
    /\ arg' = thing
    /\ writing' = FALSE
    /\ loc' = None
    /\ out' = <<>>
    /\ raised' = None
    /\ arose' = ""
    /\ hpc' = IF thing.isString THEN "resolving" ELSE "rendering"
    /\ UNCHANGED sysModules
    /\ UNCHANGED <<synVars, scanVars, pageVars>>

\* the "if type(thing) is type(''):" block of doc
DocResolve ==
    /\ boundary = "doc" /\ hpc = "resolving"
    /\ LET r == locate(arg, sysModules)
       IN  /\ sysModules' = r.modules
           /\ loc' = Some(r)
           /\ IF r.raise
              THEN hpc' = "idle" /\ out' = <<Shown("print", "problem")>>
                   /\ arose' = "ImportFailure"
              ELSE IF Truth(r)
              THEN hpc' = "rendering" /\ out' = out /\ arose' = arose
              ELSE hpc' = "idle" /\ out' = <<Shown("print", "notfound")>>
                   /\ arose' = NothingFound(r)
    /\ UNCHANGED <<boundary, arg, writing, raised>>
    /\ UNCHANGED <<synVars, scanVars, pageVars>>

\* pager('Help on %s:\n\n' % desc + text.document(thing))
DocRender ==
    /\ boundary = "doc" /\ hpc = "rendering"
    /\ hpc' = "idle"
    /\ IF document(IF loc = None THEN arg.obj[1] ELSE loc[1].obj[1])
       THEN out' = Append(out, Shown("pager", "doc")) /\ UNCHANGED <<raised, arose>>
       ELSE /\ raised' = Propagated("TypeError", "Doc.document")
            /\ arose' = "UnsupportedType"
            /\ out' = out
    /\ UNCHANGED <<sysModules, boundary, arg, writing, loc>>
    /\ UNCHANGED <<synVars, scanVars, pageVars>>

\* os.path.splitext(os.path.basename(path))[0]
ModuleNameOfFile(path) ==
    LET words == split(basename(path), ".")
    IN  IF Len(words) = 1 THEN words[1] ELSE join(SubSeq(words, 1, Len(words) - 1), ".")

\* importfile(path): the module loaded from the file, or None for the
\* DocImportError
importfile(path) ==
    LET ms == {m \in DOMAIN World : World[m].file = path /\ World[m].status = "ok"}
    IN  IF ms = {} THEN None ELSE Some(ModuleObject(CHOOSE m \in ms : TRUE))

\* one iteration of "for arg in args" in cli, up to the call of writedoc or man
CliEnter(a, w) ==
    /\ hpc = "idle"
    /\ boundary' = "cli"
    /\ writing' = w
    /\ loc' = None
    /\ raised' = None
    /\ IF find(a, "/") >= 0 /\ isfile(fs, a)
       THEN IF importfile(a) = None
            THEN /\ arg' = Name(a)
                 /\ hpc' = "idle"
                 /\ out' = <<Shown("print", "problem")>>
                 /\ arose' = "ImportFailure"
                 /\ UNCHANGED sysModules
            ELSE /\ arg' = Thing(importfile(a)[1])
                 /\ hpc' = "resolving"
                 /\ out' = <<>>
                 /\ arose' = ""
                 /\ sysModules' = sysModules \cup {ModuleNameOfFile(a)}
       ELSE /\ arg' = Name(a)
            /\ hpc' = "resolving"
            /\ out' = <<>>
            /\ arose' = ""
            /\ UNCHANGED sysModules
    /\ UNCHANGED <<synVars, scanVars, pageVars>>

\* writedoc(arg) or man(arg) up to the rendering, under cli's
\* "except DocImportError"
CliResolve ==
    /\ boundary = "cli" /\ hpc = "resolving"
    /\ LET r == locate(arg, sysModules)
       IN  /\ sysModules' = r.modules
           /\ loc' = Some(r)
           /\ IF r.raise
              THEN hpc' = "idle" /\ out' = <<Shown("print", "problem")>>
                   /\ arose' = "ImportFailure" /\ raised' = raised
              ELSE IF ~Truth(r)
              THEN /\ hpc' = "idle"
                   /\ out' = IF writing THEN out ELSE <<Shown("print", "notfound")>>
                   /\ arose' = NothingFound(r)
                   /\ raised' = raised
              ELSE IF writing /\ ~arg.isString
              THEN /\ hpc' = "idle"
                   /\ raised' = Propagated("TypeError", "writedoc")
                   /\ out' = out
                   /\ arose' = arose
              ELSE hpc' = "rendering" /\ out' = out /\ arose' = arose /\ raised' = raised
    /\ UNCHANGED <<boundary, arg, writing>>
    /\ UNCHANGED <<synVars, scanVars, pageVars>>

\* file.write(html.page(object)) ... in writedoc, pager(... text.document(object))
\* in man
CliRender ==
    /\ boundary = "cli" /\ hpc = "rendering"
    /\ hpc' = "idle"
    /\ IF document(loc[1].obj[1])
       THEN /\ out' = IF writing
                      THEN out \o <<Shown("file", "doc"), Shown("print", "wrote")>>
                      ELSE Append(out, Shown("pager", "doc"))
            /\ UNCHANGED <<raised, arose>>
       ELSE /\ raised' = Propagated("TypeError", "Doc.document")
            /\ arose' = "UnsupportedType"
            /\ out' = out
    /\ UNCHANGED <<sysModules, boundary, arg, writing, loc>>
    /\ UNCHANGED <<synVars, scanVars, pageVars>>

SrvInit ==
    /\ fs = LibFiles
    /\ cache = <<>>
    /\ lastSyn = None
    /\ IdleScanner
    /\ IdleServer
    /\ IdlePages

SrvNext ==
    \/ \E path \in GetPaths : GetArrive(path)
    \/ GetResolve
    \/ GetRender
    \/ \E thing \in {Name(n) : n \in Names} \cup {Thing(o) : o \in Things} : DocEnter(thing)
    \/ DocResolve
    \/ DocRender
    \/ \E a \in CliArgs, w \in BOOLEAN : CliEnter(a, w)
    \/ CliResolve
    \/ CliRender

SpecServe == SrvInit /\ [][SrvNext]_vars

-----------------------------------------------------------------------------
(* Properties of the boundaries and of locate *)

\* the boundary has handled its request or command to the end
Handled(b) == boundary = b /\ hpc = "idle"

\* C7: every GET request ends with exactly one page sent: the module index for
\* the empty name and '.', the rendered page when the name resolves to an
\* object, an error page when locate raises DocImportError, and the 'No Python
\* documentation found' page when nothing resolves.
C7_ExactlyOnePage ==
    Handled("do_GET") =>
        /\ Len(out) = 1
        /\ out[1] = Shown("page",
                          IF arg.str \in {"", "."} THEN "index"
                          ELSE IF loc[1].raise THEN "problem"
                          ELSE IF loc[1].obj # None THEN "doc"
                          ELSE "notfound")

\* C8: NotFound, ImportFailure and UnsupportedType are each caught at the
\* boundary where they arise (do_GET, doc, the cli argument loop) and shown to
\* the user as a message or an error page; none leaves the boundary.
C8_ErrorsCaughtAtBoundary ==
    (hpc = "idle" /\ boundary # "") =>
        /\ raised = None \/ raised[1].from # "Doc.document"
        /\ arose = "UnsupportedType" => out # <<>>
        /\ arose = "ImportFailure" => \E i \in 1..Len(out) : out[i].what = "problem"
        /\ arose = "NotFound" => \E i \in 1..Len(out) : out[i].what = "notfound"

\* locate was called on a non-empty name; its outcome
C9_Called == loc # None /\ arg.isString /\ arg.str # ""
C9_FoundButFailed ==
    /\ loc[1].failed # None
    /\ \/ loc[1].failed[1].path \in loc[1].modules
       \/ loc[1].failed[1].exc = "SyntaxError"
C9_RaisesIffFoundButFailed ==
    /\ loc[1].raise <=> C9_FoundButFailed
    /\ loc[1].raise =>
         /\ loc[1].filename = World[loc[1].failed[1].path].file
         /\ loc[1].etype = World[loc[1].failed[1].path].exc
C9_NoPrefixFound == split(arg.str, ".")[1] \notin DOMAIN World

C9_WitnessNotFound ==
    /\ C9_Called
    /\ arg.str = "nosuchmodule123"
    /\ ~loc[1].raise
    /\ loc[1].obj = None

\* C10: locate returns (None, None) without raising for the empty string and
\* for every name of which no dotted prefix is importable and which is not a
\* builtin name.
C10_NotFoundWithoutRaising ==
    (loc # None /\ arg.isString
       /\ (arg.str = "" \/ (C9_NoPrefixFound /\ arg.str \notin BuiltinsAttrs)))
      => (~loc[1].raise /\ loc[1].pkg = None /\ loc[1].obj = None)

\* the object that the dotted name denotes once the modules that locate has
\* imported are attributes of their packages; None when the walk from the
\* top-level module fails or the top-level module was not imported
C11_Target ==
    LET parts == split(arg.str, ".")
    IN  IF parts[1] \in loc[1].modules /\ World[parts[1]].status = "ok"
        THEN Walk(ModuleObject(parts[1]), Tail(parts), loc[1].modules)
        ELSE None

\* the outcome of a call of locate that returned, given the name looked up in
\* __builtins__ when no prefix works
C11_Outcome(builtinName) ==
    LET parts == split(arg.str, ".")
    IN  IF C11_Target # None
        THEN /\ loc[1].pkg = Some(join(SubSeq(parts, 1, Len(parts) - 1), "."))
             /\ loc[1].obj = C11_Target
        ELSE /\ loc[1].pkg = None
             /\ loc[1].obj = IF builtinName \in BuiltinsAttrs
                             THEN Some(BuiltinObject(builtinName))
                             ELSE None

\* C11: for a dotted name p1.p2...pk locate imports the prefixes in increasing
\* length, walks the attributes p2..pk from the top-level module after each
\* import and returns (p1...p(k-1), object) at the first prefix for which the
\* walk succeeds; only when no prefix works does it return the builtin of
\* that name, else (None, None).
C11_PrefixWalkThenBuiltin ==
    (C9_Called /\ ~loc[1].raise) => C11_Outcome(arg.str)

\* what the code does instead: the name looked up in __builtins__ is the
\* prefix whose import failed, or the whole name when every import succeeded
C11_PrefixWalkThenBuiltinOfPrefix ==
    (C9_Called /\ ~loc[1].raise) =>
        C11_Outcome(IF loc[1].failed # None THEN loc[1].failed[1].path ELSE arg.str)

\* locate has resolved a function of a submodule that was imported as the
\* second prefix
C11_Resolved ==
    /\ C9_Called
    /\ arg.str = "pkg.sub.func"
    /\ ~loc[1].raise
    /\ loc[1].pkg = Some("pkg.sub")
    /\ loc[1].obj = Some(Attributes[<<"pkg.sub", "func">>])
    /\ {"pkg", "pkg.sub"} \subseteq loc[1].modules

-----------------------------------------------------------------------------
(* HTMLDoc.multicolumn, HTMLDoc.modpkglink, HTMLDoc.index and the module
   index that do_GET builds from them *)

\* rows = (len(list)+cols-1)/cols
Rows_roundedDown(n, cols) == n \div cols
Rows(n, cols) == (n + cols - 1) \div cols

\* the inner loop of multicolumn: the lines of one column.  format(list[i]) +
\* '<br>' is appended for i in range(rows*col, rows*col+rows) if i < len(list)
\* (indices from 0); formatted[i] is format(list[i])
Column(formatted, rows, col) ==
    [k \in 1..(IF rows * col >= Len(formatted) THEN 0
               ELSE IF rows * col + rows <= Len(formatted) THEN rows
               ELSE Len(formatted) - rows * col) |->
        formatted[rows * col + k] \o "<br>"]

\* HTMLDoc.multicolumn(list, format, cols): the contents of the '<td>' cells
\* of the one-row table, one cell per column, each the sequence of its lines
multicolumn(formatted, cols) ==
    [c \in 1..cols |-> Column(formatted, Rows(Len(formatted), cols), c - 1)]

\* the default of multicolumn's parameter cols
DefaultCols == 4

\* HTMLDoc.modpkglink((name, path, ispackage, shadowed))
modpkglink(e) ==
    IF e.shadowed = 1 THEN "<font color=\"#909090\">" \o e.name \o "</font>"
    ELSE LET url  == IF e.path # "" THEN e.path \o "." \o e.name \o ".html"
                     ELSE e.name \o ".html"
             text == IF e.ispackage = 1
                     THEN "<strong>" \o e.name \o "</strong>&nbsp;(package)"
                     ELSE e.name
         IN  "<a href=\"" \o url \o "\">" \o text \o "</a>"

\* the local function found(name, ispackage) of index, on its three
\* containers modpkgs, shadowed and seen
found_shadowingLost(acc, name, ispkg) ==
    IF name \in acc.seen THEN acc
    ELSE [modpkgs  |-> Append(acc.modpkgs,
                              [name |-> name, path |-> "", ispackage |-> ispkg,
                               shadowed |-> 0]),
          seen     |-> acc.seen \cup {name},
          shadowed |-> acc.shadowed \cup {name}]
found(acc, name, ispkg) ==
    IF name \in acc.seen THEN acc
    ELSE [modpkgs  |-> Append(acc.modpkgs,
                              [name |-> name, path |-> "", ispackage |-> ispkg,
                               shadowed |-> IF name \in acc.shadowed THEN 1 ELSE 0]),
          seen     |-> acc.seen \cup {name},
          shadowed |-> acc.shadowed \cup {name}]

\* for file in files: ... if ispackage(path): found(file, 1)
RECURSIVE FindPackages(_, _, _, _)
FindPackages(fsys, dir, files, acc) ==
    IF files = <<>> THEN acc
    ELSE FindPackages(fsys, dir, Tail(files),
             IF ispackage(fsys, os_path_join(dir, Head(files)))
             THEN found(acc, Head(files), 1) ELSE acc)

\* for file in files: ... if file[:1] != '_' and os.path.isfile(path): ...
RECURSIVE FindModules(_, _, _, _)
FindModules(fsys, dir, files, acc) ==
    IF files = <<>> THEN acc
    ELSE FindModules(fsys, dir, Tail(files),
             IF /\ Prefix(Head(files), 1) # "_"
                /\ isfile(fsys, os_path_join(dir, Head(files)))
                /\ modulename(Head(files)) # None
                /\ modulename(Head(files))[1] # ""
             THEN found(acc, modulename(Head(files))[1], 0) ELSE acc)

\* modpkgs.sort(): the names of the entries are distinct
RECURSIVE SortModpkgs(_)
SortModpkgs(S) ==
    IF S = {} THEN <<>>
    ELSE LET m == CHOOSE x \in S : \A y \in S : x = y \/ StrLess(x.name, y.name)
         IN  <<m>> \o SortModpkgs(S \ {m})

\* the two loops of index over the directory listing files
IndexLoops_modulesFirst(fsys, dir, files, acc) ==
    FindPackages(fsys, dir, files, FindModules(fsys, dir, files, acc))
IndexLoops(fsys, dir, files, acc) ==
    FindModules(fsys, dir, files, FindPackages(fsys, dir, files, acc))

\* HTMLDoc.index(dir, shadowed), files being what os.listdir(dir) returned:
\* the section for dir and the dictionary shadowed as the call leaves it
index(fsys, dir, files, shadowedIn) ==
    LET acc     == IndexLoops(fsys, dir, files,
                              [modpkgs |-> <<>>, seen |-> {}, shadowed |-> shadowedIn])
        modpkgs == SortModpkgs({acc.modpkgs[i] : i \in 1..Len(acc.modpkgs)})
    IN  [section  |-> [dir      |-> dir,
                       listing  |-> files,
                       modpkgs  |-> modpkgs,
                       contents |-> multicolumn([i \in 1..Len(modpkgs) |-> modpkglink(modpkgs[i])],
                                               DefaultCols)],
         shadowed |-> acc.shadowed]

\* the orders in which os.listdir may return the names of a directory
Orders(S) ==
    {f \in [1..Cardinality(S) -> S] : \A i, j \in 1..Cardinality(S) : f[i] = f[j] => i = j}

\* the directories that the module index is built over: /a and /b of
\* sys.path, with packages, plain directories, source and compiled files, a
\* name with a leading underscore and names present in both directories
IndexTreeFiles ==
    [p \in {"/a", "/a/spam", "/a/spam/__init__.py", "/a/spam.py", "/a/m.py", "/a/m.pyc",
            "/a/_x.py", "/b", "/b/m.py", "/b/spam.py", "/b/eggs", "/b/eggs/__init__.pyc",
            "/b/notes.txt"} |->
        IF p \in {"/a", "/a/spam", "/b", "/b/eggs"} THEN Dir ELSE File(1, <<>>)]

IndexOptionalFiles ==
    {"/a/spam/__init__.py", "/a/spam.py", "/a/m.pyc", "/b/m.py", "/b/eggs/__init__.pyc"}

IndexTrees ==
    {[p \in DOMAIN IndexTreeFiles \ gone |-> IndexTreeFiles[p]] :
        gone \in SUBSET IndexOptionalFiles}

\* the else branch of do_GET up to "seen = {}"
IndexBegin ==
    /\ ipc = "idle"
    /\ ipc' = "indexing"
    /\ shadowed' = {}
    /\ indices' = <<>>
    /\ idxDirs' = pathdirs(fs)
    /\ UNCHANGED <<synVars, scanVars, srvVars, fmtVars, guiVars>>

\* one iteration of "for dir in pathdirs(): indices.append(html.index(dir, seen))"
IndexDir ==
    /\ ipc = "indexing"
    /\ idxDirs # <<>>
    /\ \E files \in Orders(listdir(fs, Head(idxDirs))) :
          LET r == index(fs, Head(idxDirs), files, shadowed)
          IN  /\ indices' = Append(indices, r.section)
              /\ shadowed' = r.shadowed
    /\ idxDirs' = Tail(idxDirs)
    /\ UNCHANGED ipc
    /\ UNCHANGED <<synVars, scanVars, srvVars, fmtVars, guiVars>>

\* self.send_document('Index of Modules', contents)
IndexSend ==
    /\ ipc = "indexing"
    /\ idxDirs = <<>>
    /\ ipc' = "idle"
    /\ UNCHANGED <<shadowed, indices, idxDirs>>
    /\ UNCHANGED <<synVars, scanVars, srvVars, fmtVars, guiVars>>

IndexInit ==
    /\ fs \in IndexTrees
    /\ cache = <<>>
    /\ lastSyn = None
    /\ IdleScanner
    /\ IdleServer
    /\ IdlePages

IndexNext == IndexBegin \/ IndexDir \/ IndexSend

SpecIndex == IndexInit /\ [][IndexNext]_vars

\* the leaf names that a directory holds: its packages, and the modules of
\* its files whose names do not begin with an underscore
C12_Names(dir) ==
    {f \in listdir(fs, dir) : ispackage(fs, os_path_join(dir, f))}
      \cup {modulename(f)[1] :
              f \in {g \in listdir(fs, dir) : /\ Prefix(g, 1) # "_"
                                              /\ isfile(fs, os_path_join(dir, g))
                                              /\ modulename(g) # None}}

C12_Recorded(j) == {indices[j].modpkgs[a].name : a \in 1..Len(indices[j].modpkgs)}

\* C12 as claimed: over the directories indexed in order with one shared
\* 'shadowed' mapping, a leaf name found in more than one directory is
\* recorded only once, for the first directory that contains it.
C12_RecordedOnlyOnce ==
    \A i, j \in 1..Len(indices) : i < j => C12_Recorded(i) \cap C12_Recorded(j) = {}

\* C12 as amended: every directory's section records each leaf name the
\* directory holds; the entry is marked shadowed exactly when an earlier
\* directory holds the name, and a shadowed entry is shown as grey text
\* without a link, so a name is linked only once, for the first directory
\* that contains it.
C12_LinkedOnlyOnce ==
    \A j \in 1..Len(indices) :
        /\ C12_Recorded(j) = C12_Names(indices[j].dir)
        /\ \A a \in 1..Len(indices[j].modpkgs) :
             LET e == indices[j].modpkgs[a]
             IN  /\ e.shadowed = 1 <=>
                       \E i \in 1..(j - 1) : e.name \in C12_Names(indices[i].dir)
                 /\ find(modpkglink(e), "<a href=") >= 0 <=> e.shadowed = 0
                 /\ \E c \in 1..Len(indices[j].contents) :
                       \E k \in 1..Len(indices[j].contents[c]) :
                           indices[j].contents[c][k] = modpkglink(e) \o "<br>"

\* both directories are indexed, module m is in both: linked under /a, grey
\* under /b
C12_Witness ==
    /\ Len(indices) = 2
    /\ \E a \in 1..Len(indices[1].modpkgs) :
          indices[1].modpkgs[a].name = "m" /\ indices[1].modpkgs[a].shadowed = 0
    /\ \E a \in 1..Len(indices[2].modpkgs) :
          indices[2].modpkgs[a].name = "m" /\ indices[2].modpkgs[a].shadowed = 1

\* C13: within one directory index records each leaf name at most once, and
\* when the directory holds both a package directory and a plain module file
\* of the same name the single entry is the package, whatever the order of the
\* directory listing.
C13_PackageTakesPrecedence ==
    \A j \in 1..Len(indices) :
        /\ \A a, b \in 1..Len(indices[j].modpkgs) :
             indices[j].modpkgs[a].name = indices[j].modpkgs[b].name => a = b
        /\ \A f \in listdir(fs, indices[j].dir) :
             ispackage(fs, os_path_join(indices[j].dir, f)) =>
                \E a \in 1..Len(indices[j].modpkgs) :
                    /\ indices[j].modpkgs[a].name = f
                    /\ indices[j].modpkgs[a].ispackage = 1

\* /a holds package spam and spam.py, the listing returned spam.py first, and
\* the entry for spam is the package
C13_Witness ==
    /\ Len(indices) >= 1
    /\ ispackage(fs, "/a/spam")
    /\ isfile(fs, "/a/spam.py")
    /\ \E x, y \in 1..Len(indices[1].listing) :
          x < y /\ indices[1].listing[x] = "spam.py" /\ indices[1].listing[y] = "spam"
    /\ \E a \in 1..Len(indices[1].modpkgs) :
          indices[1].modpkgs[a].name = "spam" /\ indices[1].modpkgs[a].ispackage = 1

-----------------------------------------------------------------------------
(* More properties of the boundaries *)

\* the boundary has finished with a name that locate resolved to nothing
C14_ResolvedToNothing ==
    /\ hpc = "idle"
    /\ loc # None
    /\ arg.isString
    /\ ~loc[1].raise
    /\ loc[1].obj = None

C14_Reported ==
    /\ raised = None
    /\ \E i \in 1..Len(out) : out[i].what = "notfound"

\* C14: every front end that resolves a name (doc, man, writedoc used by -w,
\* the GET handler) reports a 'no documentation found' message when the name
\* resolves to nothing, and continues without failing.
C14_NotFoundReported == C14_ResolvedToNothing => C14_Reported

\* the same for every front end but writedoc
C14_NotFoundReportedUnlessWriting ==
    (C14_ResolvedToNothing /\ ~(boundary = "cli" /\ writing)) => C14_Reported

\* C15: with -w, an argument that contains the path separator and names an
\* existing file is loaded as a source file and its HTML documentation is
\* written to a '<name>.html' file, exactly as for an importable name.
C15_FileArgumentWritten ==
    (Handled("cli") /\ writing /\ ~arg.isString) =>
        /\ raised = None
        /\ out = <<Shown("file", "doc"), Shown("print", "wrote")>>

\* without -w the module loaded from the file is documented
C15_FileArgumentShown ==
    (Handled("cli") /\ ~writing /\ ~arg.isString) =>
        /\ raised = None
        /\ out = <<Shown("pager", "doc")>>

\* with -w an importable name is written
C15_NameWritten ==
    /\ Handled("cli") /\ writing /\ arg = Name("os")
    /\ out = <<Shown("file", "doc"), Shown("print", "wrote")>>

-----------------------------------------------------------------------------
(* The formatting helpers: cram, TextDoc.bold and plain, HTMLDoc.multicolumn *)

\* the longest list handed to multicolumn and the largest number of columns
MaxItems == 6
MaxCols == 5
\* the longest string and the largest maxlen handed to cram
MaxText == 20
MaxCap == 11
\* the longest text handed to bold
MaxBold == 3

\* max(a, b)
max(a, b) == IF a >= b THEN a ELSE b

\* text[:n] and text[n:] for 0 <= n
Slice(text, from, to) ==
    IF from >= to THEN "" ELSE SubSeq(text, from + 1, IF to > Len(text) THEN Len(text) ELSE to)

\* cram(text, maxlen); Python's / on integers rounds down, as \div does
cram_cutOff(text, maxlen) == IF Len(text) > maxlen THEN Slice(text, 0, maxlen) ELSE text
cram(text, maxlen) ==
    IF Len(text) > maxlen
    THEN LET pre  == max(0, (maxlen - 3) \div 2)
             post == max(0, maxlen - 3 - pre)
         IN  Slice(text, 0, pre) \o "..." \o Slice(text, Len(text) - post, Len(text))
    ELSE text

\* The texts of bold and plain are sequences of characters, so that the
\* backspace character, which a TLA+ string cannot hold, is one of them
Backspace == "\\b"

\* TextDoc.bold(text): join(map(lambda ch: ch + '\b' + ch, text), '')
RECURSIVE bold(_)
bold(text) ==
    IF text = <<>> THEN <<>>
    ELSE <<Head(text), Backspace, Head(text)>> \o bold(Tail(text))

\* plain(text): re.sub('.\b', '', text).  '.' matches any character but a
\* newline; the matches are found from left to right and do not overlap
RECURSIVE plain(_)
plain(text) ==
    IF text = <<>> THEN <<>>
    ELSE IF Len(text) >= 2 /\ text[1] # "\n" /\ text[2] = Backspace
    THEN plain(SubSeq(text, 3, Len(text)))
    ELSE <<Head(text)>> \o plain(Tail(text))

\* the link that do_GET's bltinlink makes for a name
bltinlink(name) == "<a href=\"" \o name \o ".html\">" \o name \o "</a>"

\* the strings that cram is called with: distinct characters, so that the
\* kept parts can be told
CramTexts == {Slice("abcdefghijklmnopqrstuvwxyz", 0, n) : n \in 0..MaxText}

\* the characters of the texts that bold is called with
BoldChars == {"h", "i", " ", "\n", Backspace}

BoldTexts == UNION {[1..n -> BoldChars] : n \in 0..MaxBold}

\* a call of a helper is pending: fmtCall holds the helper and its arguments
Pending(op) == fmtCall # None /\ fmtCall[1].op = op /\ fmtRet = None

\* the calls of cram, of plain(text.bold(t)) and of
\* html.multicolumn(list, bltinlink, cols) that are made
CramCalls ==
    {Some([op |-> "cram", text |-> text, maxlen |-> maxlen]) :
        text \in CramTexts, maxlen \in 0..MaxCap}
BoldCalls == {Some([op |-> "plain(bold)", text |-> t]) : t \in BoldTexts}
MulticolumnCalls ==
    {Some([op |-> "multicolumn", list |-> [i \in 1..n |-> "m" \o ToString(i)],
           cols |-> cols]) : n \in 0..MaxItems, cols \in 1..MaxCols}

\* cram(text, maxlen) returns
CallCram ==
    /\ Pending("cram")
    /\ fmtRet' = Some(cram(fmtCall[1].text, fmtCall[1].maxlen))
    /\ UNCHANGED fmtCall
    /\ UNCHANGED <<synVars, scanVars, srvVars, idxVars, guiVars>>

\* plain(text.bold(t)) returns
CallBoldPlain ==
    /\ Pending("plain(bold)")
    /\ fmtRet' = Some(plain(bold(fmtCall[1].text)))
    /\ UNCHANGED fmtCall
    /\ UNCHANGED <<synVars, scanVars, srvVars, idxVars, guiVars>>

\* html.multicolumn(list, bltinlink, cols) returns
CallMulticolumn ==
    /\ Pending("multicolumn")
    /\ fmtRet' = Some(multicolumn([i \in 1..Len(fmtCall[1].list) |->
                                     bltinlink(fmtCall[1].list[i])], fmtCall[1].cols))
    /\ UNCHANGED fmtCall
    /\ UNCHANGED <<synVars, scanVars, srvVars, idxVars, guiVars>>

-----------------------------------------------------------------------------
(* TextDoc.docmodule.  The page is the sequence of its sections; a section is
   kept as its title and its body rstrip(self.indent(contents)), which
   TextDoc.section joins as bold(title) + '\n' + body + '\n\n' *)

\* TextDoc.indent(text) with the default prefix
indent(text) ==
    IF text = "" THEN ""
    ELSE LET lines    == split(text, "\n")
             indented == [i \in 1..Len(lines) |->
                            IF i = Len(lines) THEN rstrip("    " \o lines[i])
                            ELSE "    " \o lines[i]]
         IN  join(indented, "\n")

\* TextDoc.section(title, contents)
section(title, contents) == <<[title |-> title, body |-> rstrip(indent(contents))]>>

\* the names of a directory in string order
RECURSIVE SortStrings(_)
SortStrings(S) ==
    IF S = {} THEN <<>>
    ELSE LET m == CHOOSE x \in S : \A y \in S : x = y \/ StrLess(x, y)
         IN  <<m>> \o SortStrings(S \ {m})

\* the loop of docmodule over os.listdir(object.__path__[0])
RECURSIVE PackageContents(_, _, _, _)
PackageContents(fsys, dir, files, modpkgs) ==
    IF files = <<>> THEN modpkgs
    ELSE LET file    == Head(files)
             modname == modulename(file)
             named   == modname # None /\ modname[1] # ""
         IN  PackageContents(fsys, dir, Tail(files),
                 IF Prefix(file, 1) = "_" THEN modpkgs
                 ELSE IF named /\ modname[1] \notin modpkgs
                 THEN modpkgs \cup {modname[1]}
                 ELSE IF ispackage(fsys, os_path_join(dir, file))
                 THEN modpkgs \cup {file \o " (package)"}
                 ELSE modpkgs)

\* the lines that self.document(item) + '\n' adds for the items of a section;
\* the rendering of a class or a routine is kept as its name
ItemLines(items) == join([i \in 1..Len(items) |-> items[i] \o "\n"], "")

\* the lines of the CONSTANTS section, the key written without overstriking
ConstantLines(constants) ==
    join([i \in 1..Len(constants) |->
            constants[i].key \o " = " \o constants[i].value \o "\n"], "")

\* version[11:-1] stripped when the version is an RCS revision keyword
Version(v) ==
    IF Prefix(v, 11) = "$Revision: " /\ Suffix(v, 1) = "$"
    THEN strip(Slice(v, 11, Len(v) - 1))
    ELSE v

\* TextDoc.docmodule(object): m holds what the reflection of the module
\* gives (its name, getdoc, getabsfile, its classes, routines and constants,
\* __path__, __version__, __date__, __author__, __credits__); files is what
\* os.listdir(object.__path__[0]) returns
docmodule(fsys, m, files) ==
    LET lines0  == split(strip(m.doc), "\n")
        one     == Len(lines0) = 1
        two     == Len(lines0) >= 2 /\ rstrip(lines0[2]) = ""
        name    == IF (one \/ two) /\ lines0[1] # ""
                   THEN m.name \o " - " \o lines0[1] ELSE m.name
        lines   == IF one THEN <<>>
                   ELSE IF two THEN SubSeq(lines0, 3, Len(lines0))
                   ELSE lines0
        file    == IF m.file = None THEN "(built-in)" ELSE m.file[1]
    IN  section("NAME", name)
          \o section("FILE", file)
          \o (IF lines # <<>> THEN section("DESCRIPTION", join(lines, "\n")) ELSE <<>>)
          \o (IF m.path # None
              THEN section("PACKAGE CONTENTS",
                       join(SortStrings(PackageContents(fsys, m.path[1], files, {})), "\n"))
              ELSE <<>>)
          \o (IF m.classes # <<>>
              THEN section("CLASSES", join(m.classes, "\n") \o "\n\n" \o ItemLines(m.classes))
              ELSE <<>>)
          \o (IF m.funcs # <<>> THEN section("FUNCTIONS", ItemLines(m.funcs)) ELSE <<>>)
          \o (IF m.constants # <<>>
              THEN section("CONSTANTS", ConstantLines(m.constants)) ELSE <<>>)
          \o (IF m.version # None THEN section("VERSION", Version(m.version[1])) ELSE <<>>)
          \o (IF m.date # None THEN section("DATE", m.date[1]) ELSE <<>>)
          \o (IF m.author # None THEN section("AUTHOR", m.author[1]) ELSE <<>>)
          \o (IF m.credits # None THEN section("CREDITS", m.credits[1]) ELSE <<>>)

\* the package directories of the documented modules: a package with
\* modules, a subpackage and a plain directory, a package that holds
\* nothing but its __init__.py, and a package that holds a subpackage spam
\* beside the module files spam.py and spam.pyc
PackageFiles ==
    [p \in {"/lib", "/lib/pkg", "/lib/pkg/__init__.py", "/lib/pkg/sub.py",
            "/lib/pkg/sub.pyc", "/lib/pkg/in", "/lib/pkg/in/__init__.py",
            "/lib/pkg/data", "/lib/bare", "/lib/bare/__init__.py",
            "/lib/both", "/lib/both/__init__.py", "/lib/both/spam",
            "/lib/both/spam/__init__.py", "/lib/both/spam.py",
            "/lib/both/spam.pyc"} |->
        IF p \in {"/lib", "/lib/pkg", "/lib/pkg/in", "/lib/pkg/data", "/lib/bare",
                  "/lib/both", "/lib/both/spam"}
        THEN Dir ELSE File(1, <<>>)]

PackageDirs == {"/lib/pkg", "/lib/bare", "/lib/both"}

\* the modules that docmodule is called with
DocModules ==
    [name      : {"spam"},
     doc       : {"", "One line.", "One line.\n\nMore text.\nAnd more.", "Two\nlines."},
     file      : {None, Some("/lib/spam.py")},
     path      : {None} \cup {Some(d) : d \in PackageDirs},
     classes   : {<<>>, <<"Cls">>},
     funcs     : {<<>>, <<"func", "len">>},
     constants : {<<>>, <<[key |-> "F_OK", value |-> "0"]>>},
     version   : {None, Some("1.0"), Some("$Revision: 1.2 $"), Some("$Revision: $")},
     date      : {None, Some("2001-03-01")},
     author    : {None, Some("Ka-Ping Yee")},
     credits   : {None, Some("Thanks.")}]

\* a package with nothing to document but its contents
PackageOnly(dir) ==
    [name |-> "spam", doc |-> "", file |-> None, path |-> Some(dir), classes |-> <<>>,
     funcs |-> <<>>, constants |-> <<>>, version |-> None, date |-> None,
     author |-> None, credits |-> None]

\* every module with its directory listed in string order, and the packages
\* with their directory listed in every order
SortedListing == [d \in PackageDirs |-> SortStrings(listdir(PackageFiles, d))]

DocmoduleCalls ==
    {Some([op |-> "docmodule", module |-> m,
           listing |-> IF m.path = None THEN <<>> ELSE SortedListing[m.path[1]]]) :
        m \in DocModules}
    \cup UNION {{Some([op |-> "docmodule", module |-> PackageOnly(d), listing |-> l]) :
                   l \in Orders(listdir(PackageFiles, d))} : d \in PackageDirs}

\* text.docmodule(m) returns
CallDocmodule ==
    /\ Pending("docmodule")
    /\ fmtRet' = Some(docmodule(fs, fmtCall[1].module, fmtCall[1].listing))
    /\ UNCHANGED fmtCall
    /\ UNCHANGED <<synVars, scanVars, srvVars, idxVars, guiVars>>

-----------------------------------------------------------------------------
(* HTMLRepr.escape, HTMLDoc.preformat, HTMLDoc.namelink and HTMLDoc.markup.
   Positions in a text count from 0, as in the code *)

\* replace(text, (old, new)): join(split(text, old), new)
replace1(text, old, new) == join(split(text, old), new)

\* HTMLRepr.escape(text)
escape(text) ==
    replace1(replace1(replace1(text, "&", "&amp;"), "<", "&lt;"), ">", "&gt;")

\* string.expandtabs(text): a tab becomes the spaces up to the next multiple
\* of 8 columns; col is the column reached
RECURSIVE expandtabsFrom(_, _)
expandtabsFrom(text, col) ==
    IF text = "" THEN ""
    ELSE LET c == Prefix(text, 1)
         IN  IF c = "\t"
             THEN Slice("        ", 0, 8 - (col % 8)) \o expandtabsFrom(DropFirst(text, 1), 0)
             ELSE c \o expandtabsFrom(DropFirst(text, 1), IF c = "\n" THEN 0 ELSE col + 1)
expandtabs(text) == expandtabsFrom(text, 0)

\* HTMLDoc.preformat(text)
preformat(text) ==
    replace1(replace1(replace1(replace1(escape(expandtabs(text)),
        "\n\n", "\n \n"), "\n\n", "\n \n"), " ", "&nbsp;"), "\n", "<br>\n")

\* the escape argument of markup: self.escape by default, self.preformat
\* where the doc routines call it
Escape(how, text) == IF how = "preformat" THEN preformat(text) ELSE escape(text)

\* HTMLDoc.namelink(name, *dicts): dicts is the sequence of the mappings
RECURSIVE namelink(_, _)
namelink(name, dicts) ==
    IF dicts = <<>> THEN name
    ELSE IF name \in DOMAIN Head(dicts)
    THEN "<a href=\"" \o Head(dicts)[name] \o "\">" \o name \o "</a>"
    ELSE namelink(name, Tail(dicts))

\* the character classes of the pattern: \w, \d, \S
Ch(text, i) == IF i < 0 \/ i >= Len(text) THEN "" ELSE SubSeq(text, i + 1, i + 1)
IsWord(c) ==
    c # "" /\ find("0123456789ABCDEFGHIJKLMNOPQRSTUVWXYZ_abcdefghijklmnopqrstuvwxyz", c) >= 0
IsDigit(c) == c # "" /\ find("0123456789", c) >= 0
IsNonSpace(c) == c # "" /\ c \notin Whitespace

\* \b at position i
Boundary(text, i) == IsWord(Ch(text, i - 1)) # IsWord(Ch(text, i))

\* the end of the longest run of \w, of \d and of \S from position i
RECURSIVE WordRun(_, _)
WordRun(text, i) == IF IsWord(Ch(text, i)) THEN WordRun(text, i + 1) ELSE i
RECURSIVE DigitRun(_, _)
DigitRun(text, i) == IF IsDigit(Ch(text, i)) THEN DigitRun(text, i + 1) ELSE i
RECURSIVE NonSpaceRun(_, _)
NonSpaceRun(text, i) == IF IsNonSpace(Ch(text, i)) THEN NonSpaceRun(text, i + 1) ELSE i

\* ((http|ftp)://\S+[\w/])\b at position s: the end of the match, -1 if none.
\* \S+ is greedy and gives back characters until [\w/] and \b match
UrlEnd(text, s) ==
    LET b    == IF Slice(text, s, s + 7) = "http://" THEN s + 7
                ELSE IF Slice(text, s, s + 6) = "ftp://" THEN s + 6
                ELSE -1
        ends == {e \in (b + 2)..NonSpaceRun(text, b) :
                    /\ (IsWord(Ch(text, e - 1)) \/ Ch(text, e - 1) = "/")
                    /\ Boundary(text, e)}
    IN  IF b < 0 \/ ends = {} THEN -1
        ELSE CHOOSE e \in ends : \A f \in ends : f <= e

\* (RFC[- ]?(\d+))\b at position s: where the digits begin and end, or None
RfcDigits(text, s) ==
    LET d == IF Ch(text, s + 3) \in {"-", " "} THEN s + 4 ELSE s + 3
        e == DigitRun(text, d)
    IN  IF Slice(text, s, s + 3) = "RFC" /\ e > d /\ ~IsWord(Ch(text, e))
        THEN Some([from |-> d, to |-> e])
        ELSE None

\* the pattern at position s, its alternatives tried in order: the groups
\* of the match, or None
MatchAt(text, s) ==
    LET none == [end |-> s, url |-> "", rfc |-> "", rfcnum |-> "", selfdot |-> FALSE,
                 name |-> ""]
    IN  IF ~Boundary(text, s) \/ ~IsWord(Ch(text, s)) THEN None
        ELSE IF UrlEnd(text, s) >= 0
        THEN Some([none EXCEPT !.end = UrlEnd(text, s),
                               !.url = Slice(text, s, UrlEnd(text, s))])
        ELSE IF RfcDigits(text, s) # None
        THEN LET d == RfcDigits(text, s)[1]
             IN  Some([none EXCEPT !.end = d.to, !.rfc = Slice(text, s, d.to),
                                   !.rfcnum = Slice(text, d.from, d.to)])
        ELSE IF Slice(text, s, s + 5) = "self." /\ IsWord(Ch(text, s + 5))
        THEN Some([none EXCEPT !.end = WordRun(text, s + 5), !.selfdot = TRUE,
                               !.name = Slice(text, s + 5, WordRun(text, s + 5))])
        ELSE Some([none EXCEPT !.end = WordRun(text, s),
                               !.name = Slice(text, s, WordRun(text, s))])

\* pattern.search(text, here): the first position from here on where the
\* pattern matches, or -1
RECURSIVE search(_, _)
search(text, here) ==
    IF here >= Len(text) THEN -1
    ELSE IF MatchAt(text, here) # None THEN here
    ELSE search(text, here + 1)

\* what markup appends for a recognised URL
UrlLink(url, how) == "<a href=\"" \o url \o "\">" \o Escape(how, url) \o "</a>"

\* what markup appends for one match
Marked(text, m, how, funcs, classes, methods) ==
    IF m.url # "" THEN UrlLink(m.url, how)
    ELSE IF m.rfc # ""
    THEN "<a href=\"http://www.rfc-editor.org/rfc/rfc" \o m.rfcnum \o ".txt\">"
           \o Escape(how, m.rfc) \o "</a>"
    ELSE IF Ch(text, m.end) = "(" THEN namelink(m.name, <<methods, funcs, classes>>)
    ELSE IF m.selfdot THEN "self.<strong>" \o m.name \o "</strong>"
    ELSE namelink(m.name, <<classes>>)

\* the while loop of markup from position here on
RECURSIVE markupFrom(_, _, _, _, _, _)
markupFrom(text, here, how, funcs, classes, methods) ==
    LET start == search(text, here)
    IN  IF start < 0 THEN Escape(how, Slice(text, here, Len(text)))
        ELSE LET m == MatchAt(text, start)[1]
             IN  Escape(how, Slice(text, here, start))
                   \o Marked(text, m, how, funcs, classes, methods)
                   \o markupFrom(text, m.end, how, funcs, classes, methods)

\* HTMLDoc.markup(text, escape, funcs, classes, methods)
markup(text, how, funcs, classes, methods) ==
    markupFrom(text, 0, how, funcs, classes, methods)

\* the longest doc text handed to markup, in pieces
MaxPieces == 3

\* the pieces that the doc texts are made of
MarkupPieces == {"http://", "x", "/", "<b>", "&", " ", "RFC", "12", "self.", "("}

RECURSIVE MarkupTexts(_)
MarkupTexts(n) ==
    IF n = 0 THEN {""}
    ELSE MarkupTexts(n - 1) \cup {t \o p : t \in MarkupTexts(n - 1), p \in MarkupPieces}

\* the mappings from names to anchors that the doc routines hand to markup
MarkupFuncs == [n \in {"x"} |-> "#-" \o n]
MarkupClasses == [n \in {"x"} |-> "#" \o n]
MarkupMethods == [n \in {} |-> ""]

MarkupCalls ==
    {Some([op |-> "markup", text |-> text, how |-> how]) :
        text \in MarkupTexts(MaxPieces), how \in {"escape", "preformat"}}

\* html.markup(text, escape, funcs, classes, methods) returns
CallMarkup ==
    /\ Pending("markup")
    /\ fmtRet' = Some(markup(fmtCall[1].text, fmtCall[1].how,
                             MarkupFuncs, MarkupClasses, MarkupMethods))
    /\ UNCHANGED fmtCall
    /\ UNCHANGED <<synVars, scanVars, srvVars, idxVars, guiVars>>

FmtInit ==
    /\ fs = PackageFiles
    /\ cache = <<>>
    /\ lastSyn = None
    /\ IdleScanner
    /\ IdleServer
    /\ shadowed = {}
    /\ indices = <<>>
    /\ idxDirs = <<>>
    /\ ipc = "idle"
    /\ gui = [scanner |-> None, server |-> None, results |-> <<>>, mainloop |-> FALSE]
    /\ scanners = <<>>
    /\ server = [pc |-> "none", quit |-> -1, quitAt |-> ""]
    /\ \/ fmtCall \in CramCalls
       \/ fmtCall \in BoldCalls
       \/ fmtCall \in MulticolumnCalls
       \/ fmtCall \in DocmoduleCalls
       \/ fmtCall \in MarkupCalls
    /\ fmtRet = None

FmtNext == CallCram \/ CallBoldPlain \/ CallMulticolumn \/ CallDocmodule \/ CallMarkup

SpecFormat == FmtInit /\ [][FmtNext]_vars

-----------------------------------------------------------------------------
(* Properties of the formatting helpers *)

\* the helper op has returned
Done(op) == fmtCall # None /\ fmtCall[1].op = op /\ fmtRet # None

C16_Order ==
    <<"NAME", "FILE", "DESCRIPTION", "PACKAGE CONTENTS", "CLASSES", "FUNCTIONS",
      "CONSTANTS", "VERSION", "DATE", "AUTHOR", "CREDITS">>

C16_Place(title) == CHOOSE k \in 1..Len(C16_Order) : C16_Order[k] = title

\* the sections of the page are in the fixed order, none twice
C16_FixedOrder ==
    Done("docmodule") =>
        /\ \A i \in 1..Len(fmtRet[1]) : \E k \in 1..Len(C16_Order) : C16_Order[k] = fmtRet[1][i].title
        /\ \A i, j \in 1..Len(fmtRet[1]) :
             i < j => C16_Place(fmtRet[1][i].title) < C16_Place(fmtRet[1][j].title)

\* C16: TextDoc.docmodule emits its sections in the fixed order NAME, FILE,
\* DESCRIPTION, PACKAGE CONTENTS, CLASSES, FUNCTIONS, CONSTANTS, VERSION, DATE,
\* AUTHOR, CREDITS, and emits no section whose content is empty.
C16_FixedOrderNoEmptySection ==
    /\ C16_FixedOrder
    /\ Done("docmodule") => \A i \in 1..Len(fmtRet[1]) : fmtRet[1][i].body # ""

\* the items of the list, formatted, as multicolumn puts them into its cells
C17_Cell(i) == bltinlink(fmtCall[1].list[i]) \o "<br>"

\* where item i of the list (counted from 1) is in the result: the set of
\* its <<column, line>> places
C17_Places(i) ==
    {<<c, k>> \in (1..Len(fmtRet[1])) \X (1..Len(fmtCall[1].list)) :
        k <= Len(fmtRet[1][c]) /\ fmtRet[1][c][k] = C17_Cell(i)}

\* C17 as claimed: multicolumn places the items into cols columns by
\* round-robin fill (item i, counted from 0, goes to column i mod cols), and
\* every item appears exactly once.
C17_RoundRobin ==
    Done("multicolumn") =>
        /\ Len(fmtRet[1]) = fmtCall[1].cols
        /\ \A i \in 1..Len(fmtCall[1].list) :
             \E k \in 1..Len(fmtCall[1].list) :
                 C17_Places(i) = {<<((i - 1) % fmtCall[1].cols) + 1, k>>}

\* the least number of rows that hold n items in cols columns
C17_Rows(n, cols) == CHOOSE r \in 0..n : r * cols >= n /\ (r = 0 \/ (r - 1) * cols < n)

\* C17 as amended: multicolumn places the items into cols columns column by
\* column: with rows the least number such that rows * cols >= len(list),
\* item i (counted from 0) is line i mod rows of column i div rows, and every
\* item appears exactly once.
C17_ColumnByColumn ==
    Done("multicolumn") =>
        LET rows == C17_Rows(Len(fmtCall[1].list), fmtCall[1].cols)
        IN  /\ Len(fmtRet[1]) = fmtCall[1].cols
            /\ \A i \in 1..Len(fmtCall[1].list) :
                 C17_Places(i) = {<<((i - 1) \div rows) + 1, ((i - 1) % rows) + 1>>}

\* five items in the default four columns: two, two, one and none
C17_Witness ==
    /\ Done("multicolumn")
    /\ Len(fmtCall[1].list) = 5
    /\ fmtCall[1].cols = DefaultCols
    /\ Len(fmtRet[1][1]) = 2 /\ Len(fmtRet[1][2]) = 2
    /\ Len(fmtRet[1][3]) = 1 /\ Len(fmtRet[1][4]) = 0
    /\ fmtRet[1][1][2] = "<a href=\"m2.html\">m2</a><br>"

\* the result of markup without the tags that markup itself writes
C18_WithoutTags(html) ==
    replace1(replace1(replace1(replace1(replace1(replace1(html,
        "<a href=\"", ""), "\">", ""), "</a>", ""), "<strong>", ""), "</strong>", ""),
        "<br>", "")

C18_NoRawAngle ==
    /\ find(C18_WithoutTags(fmtRet[1]), "<") < 0
    /\ find(C18_WithoutTags(fmtRet[1]), ">") < 0

\* C18: in the HTML that markup produces no '<' or '>' of the doc text
\* appears unescaped, the text of recognised URLs placed in link targets
\* included.
C18_DocTextEscaped == Done("markup") => C18_NoRawAngle

\* the same for the doc texts that hold no URL scheme
C18_EscapedOutsideUrls ==
    (Done("markup") /\ find(fmtCall[1].text, "http://") < 0) => C18_NoRawAngle

C20_NoBackspace(t) == \A i \in 1..Len(t) : t[i] # Backspace

\* C20: for every string t that contains no backspace character,
\* plain(TextDoc.bold(t)) equals t.
C20_PlainOfBold ==
    (Done("plain(bold)") /\ C20_NoBackspace(fmtCall[1].text)) => fmtRet[1] = fmtCall[1].text

\* the same for the strings that also contain no newline
C20_PlainOfBoldOnOneLine ==
    (Done("plain(bold)") /\ C20_NoBackspace(fmtCall[1].text)
       /\ \A i \in 1..Len(fmtCall[1].text) : fmtCall[1].text[i] # "\n")
      => fmtRet[1] = fmtCall[1].text

\* "hi"
C20_Hi == Done("plain(bold)") /\ fmtCall[1].text = <<"h", "i">> /\ fmtRet[1] = <<"h", "i">>

-----------------------------------------------------------------------------
(* What synopsis extracts, and its first call for a path *)

\* a line the first loop of synopsis passes over: a comment or a blank line
C21_Skipped(line) == Prefix(line, 1) = "#" \/ strip(line) = ""

\* the least element of a non-empty set of line numbers
C21_First(S) == CHOOSE i \in S : \A j \in S : i <= j

\* the synopsis of a file, said directly: the first line that is neither a
\* comment nor blank must begin with the delimiter; the content is the rest
\* of that line if it is not blank, else the next non-blank line; the
\* synopsis is the content up to the closing delimiter, stripped
C21_Synopsis(lines) ==
    LET content == {i \in 1..Len(lines) : ~C21_Skipped(lines[i])}
    IN  IF content = {} THEN None
        ELSE LET i     == C21_First(content)
                 line  == strip(lines[i])
                 rest  == DropFirst(line, 3)
                 later == {j \in (i + 1)..Len(lines) : strip(lines[j]) # ""}
                 text  == IF strip(rest) # "" THEN rest
                          ELSE IF later = {} THEN ""
                          ELSE lines[C21_First(later)]
             IN  IF Prefix(line, 3) = "\"\"\""
                 THEN Some(strip(SplitFirst(text, "\"\"\"")))
                 ELSE None

C21_EmptyRead ==
    /\ lastSyn # None
    /\ lastSyn[1].opened
    /\ fs[lastSyn[1].path].lines = <<>>
    /\ lastSyn[1].result = None

\* C28: the first synopsis call for a path that has no cache entry reads the
\* file and returns the synopsis of its current contents, whatever the
\* file's modification time (0 included).
C28_FirstCallReads ==
    (lastSyn # None /\ lastSyn[1].prior = None) =>
        /\ lastSyn[1].opened
        /\ lastSyn[1].result = ReadSynopsis(fs[lastSyn[1].path].lines)
        /\ lastSyn[1].path \in DOMAIN cache

\* the same for the files whose modification time is after the epoch: this
\* much the code does
C28_FirstCallReadsAfterEpoch ==
    (lastSyn # None /\ lastSyn[1].prior = None /\ fs[lastSyn[1].path].mtime > 0) =>
        /\ lastSyn[1].opened
        /\ lastSyn[1].result = ReadSynopsis(fs[lastSyn[1].path].lines)
        /\ cache[lastSyn[1].path] = [mtime  |-> fs[lastSyn[1].path].mtime,
                                     result |-> lastSyn[1].result]

\* a first call on a file of time 0: not opened, nothing cached
C28_NotReadAtEpoch ==
    /\ lastSyn # None
    /\ lastSyn[1].prior = None
    /\ fs[lastSyn[1].path].mtime = 0
    /\ ~lastSyn[1].opened
    /\ lastSyn[1].path \notin DOMAIN cache

-----------------------------------------------------------------------------
(* The package contents that docmodule lists *)

\* the directory of the package that docmodule was called with
C22_Dir == fmtCall[1].module.path[1]

\* the lines of the PACKAGE CONTENTS section of the page returned
C22_Lines ==
    LET page == fmtRet[1]
        k    == CHOOSE i \in 1..Len(page) : page[i].title = "PACKAGE CONTENTS"
        rows == split(page[k].body, "\n")
    IN  [i \in 1..Len(rows) |-> strip(rows[i])]

\* the number of lines that read text
C22_Count(text) == Cardinality({i \in 1..Len(C22_Lines) : C22_Lines[i] = text})

\* the names that the directory holds both as a subpackage and as a module file
C22_Both ==
    {f \in listdir(fs, C22_Dir) :
        /\ Prefix(f, 1) # "_"
        /\ ispackage(fs, os_path_join(C22_Dir, f))
        /\ \E g \in listdir(fs, C22_Dir) :
              isfile(fs, os_path_join(C22_Dir, g)) /\ modulename(g) = Some(f)}

\* C22: in the package contents that docmodule lists, a name that the
\* package directory holds both as a subpackage directory and as a plain
\* module file is listed once, as the package, whatever the order of the
\* directory listing.
C22_ListedOnceAsPackage ==
    (Done("docmodule") /\ fmtCall[1].module.path # None) =>
        \A f \in C22_Both :
            /\ C22_Count(f \o " (package)") = 1
            /\ C22_Count(f) = 0

\* what the loop does instead, in every order: the name is listed twice,
\* once as the package and once as a module
C22_ListedAsPackageAndModule ==
    (Done("docmodule") /\ fmtCall[1].module.path # None) =>
        \A f \in C22_Both :
            /\ C22_Count(f \o " (package)") = 1
            /\ C22_Count(f) = 1

\* the package directory with spam/, spam.py and spam.pyc, listed with the
\* subpackage first: the page lists spam and spam (package)
C22_SpamTwice ==
    /\ Done("docmodule")
    /\ fmtCall[1].module.path = Some("/lib/both")
    /\ fmtCall[1].listing[1] = "spam"
    /\ C22_Both = {"spam"}
    /\ C22_Lines = <<"spam", "spam (package)">>

-----------------------------------------------------------------------------
(* What run() keeps and what it resets on a scanner that is run again *)

\* the nodes of the current run that the loop body has dealt with: all that
\* next() returned to it but the one just fetched
C27_Examined ==
    IF pc = "node" THEN SubSeq(RunNodes, 1, Len(RunNodes) - 1) ELSE RunNodes

\* the names that a run beginning with an empty seen has entered by now
C27_SeenOfThisRun ==
    C5_Builtins
      \cup {C5_Name(C27_Examined[i]) :
              i \in {j \in 1..Len(C27_Examined) : C5_IsModuleFile(C27_Examined[j])}}

\* C27: the traversal position of a ModuleScanner is kept on the instance and
\* not reset by run(): a later run() on the same instance resumes after the
\* last node returned, so no node is visited twice over the instance's
\* lifetime; the set of seen module names starts empty on every run and the
\* built-in modules are checked again.
C27_PositionKeptSeenReset ==
    LET pre == C6_PreorderOfTree[fs]
    IN  /\ runFrom <= Len(visited)
        /\ visited = SubSeq(pre, 1, Len(visited))
        /\ \A i, j \in 1..Len(visited) : i < j => visited[i] # visited[j]
        /\ pc = "builtins" =>
             seen = {BuiltinModuleNames[i] : i \in 1..(bi - 1)} \ {"__main__"}
        /\ pc \in {"while", "next", "node", "wcallback", "completer"} =>
             /\ seen = C27_SeenOfThisRun
             /\ \A b \in C5_Builtins :
                  Matches(b, BuiltinDesc(b), key) =>
                     \E i \in MatchEvents :
                        events[i].path = None /\ events[i].modname = b

\* a second run on a scanner whose first run was stopped after /a/m.py: it
\* goes on behind the node returned last, reports the built-in sys again and
\* reports m again, now for /b/m.py
C27_Witness ==
    /\ runs = 2
    /\ pc = "idle"
    /\ 0 < runFrom
    /\ runFrom < Len(visited)
    /\ \E i \in 1..runFrom : visited[i] = <<"/a/m.py", "">>
    /\ \E i \in MatchEvents : events[i].modname = "m" /\ events[i].path = Some("/b/m.py")
    /\ \E i \in MatchEvents : events[i].modname = "sys" /\ events[i].path = None

-----------------------------------------------------------------------------
(* A name that locate resolves to an object that tests false *)

\* the boundary has finished with a name that locate resolved to an object
C26_Resolved ==
    /\ hpc = "idle"
    /\ loc # None
    /\ arg.isString
    /\ ~loc[1].raise
    /\ loc[1].obj # None

\* the boundary treated the name as found: it showed or wrote something other
\* than the 'No Python documentation found' outcome, or failed while rendering
C26_TreatedAsFound ==
    /\ \A i \in 1..Len(out) : out[i].what # "notfound"
    /\ out # <<>> \/ raised # None

\* C26: whenever locate resolves a name to an object (its second result is
\* not None), doc, man, writedoc and do_GET treat the name as found and never
\* emit the 'No Python documentation found' outcome for it, whatever the truth
\* value of the resolved object.
C26_ResolvedIsFound == C26_Resolved => C26_TreatedAsFound

\* the same for the objects that test true: this much the code does
C26_TrueResolvedIsFound ==
    (C26_Resolved /\ loc[1].obj[1].truthy) => C26_TreatedAsFound

\* GET /os.F_OK.html: locate returns the integer 0 and the page sent is the
\* 'No Python documentation found' page
C26_ZeroNotFound ==
    /\ C26_Resolved
    /\ boundary = "do_GET"
    /\ arg.str = "os.F_OK"
    /\ loc[1].obj = Some(Attributes[<<"os", "F_OK">>])
    /\ out = <<Shown("page", "notfound")>>

-----------------------------------------------------------------------------
(* The GUI: the main thread that runs the handlers search, stop (hide) and
   quit, the server thread that GUI.__init__ starts, and one thread per
   search that executes ModuleScanner.run(key, self.update, self.done).  The
   search key is the empty string, which every module matches; the tree that
   a scanner walks is kept as the number of module files that self.next() has
   yet to return.  A scanner is known by its place in scanners.  The attribute
   quit of a scanner and of the server is -1 as long as nothing has assigned
   it *)

MaxSearches == 2
MaxNodes == 2

\* everything but the GUI, its scanners and its server
restVars == <<synVars, scanVars, srvVars, idxVars, fmtVars>>

\* GUI.update(path, modname, desc), called by the thread of scanner s
update(g, s) == [g EXCEPT !.results = Append(@, [from |-> s])]

\* GUI.done()
done(g) == [g EXCEPT !.scanner = None]

\* scanner.quit = 1 done by the GUI on the scanner it refers to
Cancel(ss, g) ==
    IF g.scanner = None THEN ss
    ELSE [ss EXCEPT ![g.scanner[1]].quit = 1,
                    ![g.scanner[1]].quitAt = ss[g.scanner[1]].pc]

\* GUI.search: the list is emptied, the scanner in use is told to quit, a new
\* scanner is made and its thread started
Search ==
    /\ gui.mainloop
    /\ Len(scanners) < MaxSearches
    /\ scanners' = Append(Cancel(scanners, gui),
                          [pc |-> "init", quit |-> -1, bi |-> 1, todo |-> MaxNodes,
                           quitAt |-> "", after |-> 0])
    /\ gui' = [gui EXCEPT !.results = <<>>, !.scanner = Some(Len(scanners) + 1)]
    /\ UNCHANGED server
    /\ UNCHANGED restVars

\* GUI.stop, also called by GUI.hide
Stop ==
    /\ gui.mainloop
    /\ gui.scanner # None
    /\ scanners' = Cancel(scanners, gui)
    /\ gui' = [gui EXCEPT !.scanner = None]
    /\ UNCHANGED server
    /\ UNCHANGED restVars

\* GUI.quit: if self.server: self.server.quit = 1; self.window.quit()
GuiQuit ==
    /\ gui.mainloop
    /\ server' = IF gui.server # None
                 THEN [server EXCEPT !.quit = 1, !.quitAt = server.pc]
                 ELSE server
    /\ gui' = [gui EXCEPT !.mainloop = FALSE]
    /\ UNCHANGED scanners
    /\ UNCHANGED restVars

\* run of scanner s: self.quit = 0; seen = {}
ThreadInit(s) ==
    /\ scanners[s].pc = "init"
    /\ scanners' = [scanners EXCEPT ![s].quit = 0, ![s].pc = "builtins"]
    /\ UNCHANGED <<gui, server>>
    /\ UNCHANGED restVars

\* one iteration of "for modname in sys.builtin_module_names", or its end
ThreadBuiltin(s) ==
    /\ scanners[s].pc = "builtins"
    /\ IF scanners[s].bi > Len(BuiltinModuleNames)
       THEN /\ scanners' = [scanners EXCEPT ![s].pc = "while"]
            /\ UNCHANGED gui
       ELSE /\ scanners' = [scanners EXCEPT ![s].bi = @ + 1]
            /\ gui' = IF BuiltinModuleNames[scanners[s].bi] # "__main__"
                      THEN update(gui, s) ELSE gui
    /\ UNCHANGED server
    /\ UNCHANGED restVars

\* while not self.quit:
ThreadWhile(s) ==
    /\ scanners[s].pc = "while"
    /\ scanners' = [scanners EXCEPT
                      ![s].pc = IF WhileTest(scanners[s].quit) THEN "next" ELSE "completer"]
    /\ UNCHANGED <<gui, server>>
    /\ UNCHANGED restVars

\* node = self.next(); if not node: break
ThreadNext(s) ==
    /\ scanners[s].pc = "next"
    /\ scanners' =
         IF scanners[s].todo = 0
         THEN [scanners EXCEPT ![s].pc = "completer"]
         ELSE [scanners EXCEPT ![s].pc = "node",
                               ![s].todo = @ - 1,
                               ![s].after = IF scanners[s].quitAt # "" THEN @ + 1 ELSE @]
    /\ UNCHANGED <<gui, server>>
    /\ UNCHANGED restVars

\* the body of the loop for the module file returned: callback(path, modname, desc)
ThreadNode(s) ==
    /\ scanners[s].pc = "node"
    /\ scanners' = [scanners EXCEPT ![s].pc = "while"]
    /\ gui' = update(gui, s)
    /\ UNCHANGED server
    /\ UNCHANGED restVars

\* if completer: completer(); the thread ends
ThreadComplete(s) ==
    /\ scanners[s].pc = "completer"
    /\ scanners' = [scanners EXCEPT ![s].pc = "ended"]
    /\ gui' = done(gui)
    /\ UNCHANGED server
    /\ UNCHANGED restVars

\* DocServer.__init__ reaches server_activate: self.callback(self), which is
\* GUI.ready
ServerActivate ==
    /\ server.pc = "created"
    /\ server' = [server EXCEPT !.pc = "activated"]
    /\ gui' = [gui EXCEPT !.server = Some("DocServer")]
    /\ UNCHANGED scanners
    /\ UNCHANGED restVars

\* serve_until_quit: self.quit = 0
ServeInit ==
    /\ server.pc = "activated"
    /\ server' = [server EXCEPT !.pc = "while", !.quit = 0]
    /\ UNCHANGED <<gui, scanners>>
    /\ UNCHANGED restVars

\* while not self.quit:
ServeWhile ==
    /\ server.pc = "while"
    /\ server' = [server EXCEPT !.pc = IF server.quit = 0 THEN "select" ELSE "returned"]
    /\ UNCHANGED <<gui, scanners>>
    /\ UNCHANGED restVars

\* rd, wr, ex = select.select([self.socket.fileno()], [], [], 1): a request
\* has come in, or the second is over
ServeSelect ==
    /\ server.pc = "select"
    /\ \E rd \in BOOLEAN : server' = [server EXCEPT !.pc = IF rd THEN "handle" ELSE "while"]
    /\ UNCHANGED <<gui, scanners>>
    /\ UNCHANGED restVars

\* if rd: self.handle_request()
ServeHandle ==
    /\ server.pc = "handle"
    /\ server' = [server EXCEPT !.pc = "while"]
    /\ UNCHANGED <<gui, scanners>>
    /\ UNCHANGED restVars

\* the state in which GUI.__init__ leaves the program: the window is up, the
\* thread of serve(port, self.ready) is started
GuiInit ==
    /\ fs = TreeFiles
    /\ cache = <<>>
    /\ lastSyn = None
    /\ IdleScanner
    /\ IdleServer
    /\ shadowed = {}
    /\ indices = <<>>
    /\ idxDirs = <<>>
    /\ ipc = "idle"
    /\ fmtCall = None
    /\ fmtRet = None
    /\ gui = [scanner |-> None, server |-> None, results |-> <<>>, mainloop |-> TRUE]
    /\ scanners = <<>>
    /\ server = [pc |-> "created", quit |-> -1, quitAt |-> ""]

ScannerStep ==
    \E s \in 1..Len(scanners) :
        \/ ThreadInit(s)
        \/ ThreadBuiltin(s)
        \/ ThreadWhile(s)
        \/ ThreadNext(s)
        \/ ThreadNode(s)
        \/ ThreadComplete(s)

ServerStep == ServerActivate \/ ServeInit \/ ServeWhile \/ ServeSelect \/ ServeHandle

GuiNext == Search \/ Stop \/ GuiQuit \/ ScannerStep \/ ServerStep

SpecGui == GuiInit /\ [][GuiNext]_vars

\* the server thread is scheduled again and again
SpecGuiLive == GuiInit /\ [][GuiNext]_vars /\ WF_vars(ServerStep)

-----------------------------------------------------------------------------
(* Properties of the GUI, its scanners and its server *)

\* C23: a quit request made by the GUI (stop, hide or a new search) on a
\* scanner whose run thread has already been started is never lost: in every
\* interleaving, a request that lands before run() executes its first
\* statement included, the scanner stops without traversing the rest of the
\* tree (at most the step under way is finished).
C23_QuitNeverLost ==
    \A s \in 1..Len(scanners) : scanners[s].quitAt # "" => scanners[s].after <= 1

\* the same for the requests that land after the first statement of run():
\* this much the code does
C23_QuitKeptOnceRunning ==
    \A s \in 1..Len(scanners) :
        scanners[s].quitAt \notin {"", "init"} =>
            /\ scanners[s].after <= 1
            /\ scanners[s].quitAt # "next" => scanners[s].after = 0

\* a scanner told to quit before its thread had executed anything that went
\* through the whole tree and ended
C23_LostAtInit ==
    \E s \in 1..Len(scanners) :
        /\ scanners[s].quitAt = "init"
        /\ scanners[s].pc = "ended"
        /\ scanners[s].todo = 0
        /\ scanners[s].after = MaxNodes

\* the scanner of the latest search, if its thread is running and the GUI has
\* not told it to quit
C24_Latest == Len(scanners)

C24_RunningUncancelled ==
    /\ scanners # <<>>
    /\ scanners[C24_Latest].pc # "ended"
    /\ scanners[C24_Latest].quitAt = ""

\* C24: whenever a scanner thread started by the latest search() is still
\* running and has not been cancelled, GUI.scanner refers to that scanner (so
\* stop() can cancel it) and the result list holds entries only from it; a
\* superseded scanner finishing late (its done() or update() callback) does
\* not disturb this.
C24_LatestScannerOwnsGui ==
    C24_RunningUncancelled =>
        /\ gui.scanner = Some(C24_Latest)
        /\ \A i \in 1..Len(gui.results) : gui.results[i].from = C24_Latest

\* the same as long as there has been one search only: this much the code does
C24_OnlyScannerOwnsGui ==
    (C24_RunningUncancelled /\ Len(scanners) = 1) =>
        /\ gui.scanner = Some(1)
        /\ \A i \in 1..Len(gui.results) : gui.results[i].from = 1

\* the second search is running, the first scanner has ended after it: the
\* GUI refers to no scanner and the list holds an entry of the first scanner
C24_Superseded ==
    /\ Len(scanners) = 2
    /\ C24_RunningUncancelled
    /\ scanners[1].pc = "ended"
    /\ scanners[1].quitAt \notin {"", "init"}
    /\ gui.scanner = None
    /\ \E i \in 1..Len(gui.results) : gui.results[i].from = 1

\* C25: once GUI.quit has set server.quit on the server handed to it by the
\* ready callback, DocServer.serve_until_quit eventually returns, in every
\* interleaving of the GUI thread and the server thread.
C25_QuitStopsServer == (server.quitAt # "") ~> (server.pc = "returned")

\* the same for a quit that comes once serve_until_quit has begun: this much
\* the code does
C25_QuitStopsServingServer ==
    (server.quitAt \notin {"", "activated"}) ~> (server.pc = "returned")

\* GUI.quit came between the ready callback and the first statement of
\* serve_until_quit, and the server is waiting for requests
C25_QuitLost ==
    /\ server.quitAt = "activated"
    /\ server.quit = 0
    /\ server.pc = "select"
    /\ ~gui.mainloop

=============================================================================
